---- MODULE Spec2Model ----
(***************************************************************************)
(* Credential and session security subsystem of the authentication        *)
(* service: the registration handler (pending user, response-time floor,  *)
(* verification email), the login / MFA handlers (password check,         *)
(* challenge session, TOTP confirmation, session issuance), the token      *)
(* issuer, the confirmation handler, and the crypto primitives and the     *)
(* password rules as functions of their arguments.                         *)
(*                                                                         *)
(* Time is counted in ticks of 0.05 s, per request, from handler entry.    *)
(* The durable store (stored procedures) is modelled at its boundary.      *)
(***************************************************************************)
EXTENDS Integers, Sequences, FiniteSets, TLC

VARIABLES
    timed,        \* TRUE: latencies and jitter are drawn from their full ranges
    regReq,       \* registration requests in flight: slot -> handler frame
    pending,      \* committed pending_users rows
    emails,       \* verification emails handed to the background task queue
    nextToken,    \* number of tokens drawn from create_token so far
    deploy,       \* which login handler and which MFA router are mounted
    sessions,     \* session rows (token hashes only)
    challenges,   \* MFA challenge session rows (token hash only)
    totp,         \* per user: state of the TOTP secret row
    mfaReq,       \* confirm_2fa requests in flight: slot -> handler frame
    lastLogin,    \* what the last login request did and answered
    issued,       \* history: how each session came to be issued
    failedChallenges,   \* history: challenge tokens of rejected TOTP codes
    issue,        \* one call of create_login_session / create_mfa_challenge_session
    handedOut,    \* history: plaintext tokens the issuer returned to its caller
    conf,         \* confirm_pending_user requests in flight: slot -> handler frame
    users,        \* committed users rows created by confirmation
    lastConfirm,  \* what the last finished confirm_pending_user met and answered
    crypt,        \* one encrypt_field call and the decrypt_field call on its result
    pw,           \* one hash_password call and the verify_password call on its result
    otp,          \* one verify_otp call
    valid,        \* one validate_password_complexity call
    call          \* one call of hash_email, or of the request schema, and its result

regVars == <<timed, regReq, pending, emails>>

loginVars == <<deploy, sessions, challenges, totp, mfaReq, lastLogin, issued,
               failedChallenges>>

issueVars == <<issue, handedOut>>

confVars == <<conf, users, lastConfirm>>

fnVars == <<crypt, pw, otp, valid, call>>

extVars == <<issueVars, confVars, fnVars>>

storeVars == <<regVars, nextToken, loginVars, issueVars, confVars>>

vars == <<regVars, nextToken, loginVars, extVars>>

----------------------------------------------------------------------------
\* Bounds of the model.

\* registration requests that may run concurrently when time is not tracked
NumReq == 2

\* registration requests that may run concurrently when time is tracked
NumTimedReq == 1

\* the longest latency, in ticks, of one awaited store call
MaxLatency == 10

\* tokens that login, TOTP setup and TOTP confirmation may draw in all
MaxTokens == 5

\* confirm_2fa requests that may run concurrently
NumMfaReq == 1

\* confirm_2fa requests in flight at once when its awaits are steps
NumConcurrent == 2

\* requests the event loop serves at once
NumLoopReq == 3

\* steps of the CPU that one verify_password takes
HashSteps == 2

\* steps of the CPU that one verify_otp takes
OtpSteps == 1

\* confirm_pending_user requests that may run concurrently
NumConf == 2

\* registration requests that may run beside the confirmations
NumConfReg == 1

\* the longest string, in characters, given to encrypt_field
MaxLen == 2

\* the most characters that follow the common stem of the passwords
MaxTail == 2

\* the most characters that follow the filling of a password under validation
MaxChars == 3

\* the longest address, in characters, given to hash_email
MaxEmailLen == 4

----------------------------------------------------------------------------
\* Values.

None == "None"

Max(a, b) == IF a >= b THEN a ELSE b

Apps == {"app1", "app2"}

\* Addresses as tuples of characters: one plain, one differing in case and tag.
EmailPlain == <<"a", "@", "x">>

EmailTagged == <<"A", "+", "t", "@", "x">>

EmailOther == <<"b", "@", "x">>

Emails == {EmailPlain, EmailTagged}

\* The users that exist: u1 plain, u2 with 2FA enabled, u3 suspended.
UserIds == {"u1", "u2", "u3"}

NoUser == "NoUser"

\* Passwords as sequences of code points: "Correct-Horse-9!" and "Correct-Horse-8!"
GoodPassword == <<67, 111, 114, 114, 101, 99, 116, 45, 72, 111, 114, 115, 101, 45, 57, 33>>

BadPassword == <<67, 111, 114, 114, 101, 99, 116, 45, 72, 111, 114, 115, 101, 45, 56, 33>>

Slots == 1..NumReq

----------------------------------------------------------------------------
\* Crypto primitives and the credential normalizer.

\* str.lower() on one character of the alphabet used here
LowerChar(c) ==
    CASE c = "A" -> "a" [] c = "B" -> "b" [] c = "T" -> "t" [] c = "X" -> "x" [] OTHER -> c

\* a text left in the case it was written in
KeepCase(s) == s

\* email.lower()
Lower(s) == [i \in 1..Len(s) |-> LowerChar(s[i])]

Positions(s, c) == {i \in 1..Len(s) : s[i] = c}

MinOf(S) == CHOOSE x \in S : \A y \in S : x <= y

MaxOf(S) == CHOOSE x \in S : \A y \in S : x >= y

\* hash_field: SHA-256 over "namespace:value", taken as collision free
hash_field(value, namespace) == <<"sha256", namespace, value>>

\* hash_email: lowercase, cut the local part at its first "+", then hash_field
NormalizeEmail(email) ==
    LET normalized_email == Lower(email)
    IN  IF Positions(normalized_email, "+") # {}
        THEN LET at == MaxOf(Positions(normalized_email, "@"))
                 local_part == SubSeq(normalized_email, 1, at - 1)
                 domain_part == SubSeq(normalized_email, at + 1, Len(normalized_email))
                 cut == IF Positions(local_part, "+") = {}
                        THEN local_part
                        ELSE SubSeq(local_part, 1, MinOf(Positions(local_part, "+")) - 1)
             IN  cut \o <<"@">> \o domain_part
        ELSE normalized_email

hash_email(email, namespace) == hash_field(NormalizeEmail(email), namespace)

\* hash_token: HMAC-SHA256 of the token under the token pepper
PlainToken(token) == <<"plain", token>>

hash_token(token) == <<"hmac", token>>

\* encrypt_field: AES-GCM blob of the plaintext
encrypt_field(plaintext) == <<"aesgcm", plaintext>>

----------------------------------------------------------------------------
\* The store's user table and lookups.

\* rows of the users table, without the flags that change
UserRow(u) ==
    CASE u = "u1" -> [id |-> "u1", app_id |-> "app2", email |-> EmailPlain,
                      is_suspended |-> FALSE, is_email_verified |-> TRUE]
      [] u = "u2" -> [id |-> "u2", app_id |-> "app2", email |-> EmailOther,
                      is_suspended |-> FALSE, is_email_verified |-> TRUE]
      [] OTHER    -> [id |-> "u3", app_id |-> "app1", email |-> EmailOther,
                      is_suspended |-> TRUE, is_email_verified |-> TRUE]

UserKey(u) ==
    [app_id |-> UserRow(u).app_id,
     email_hash |-> hash_email(UserRow(u).email, UserRow(u).app_id)]

\* (app_id, email_hash) of the users: an address that is already registered
Registered == {UserKey(u) : u \in UserIds}

\* PASSWORD_PEPPER, a secret of the deployment: here "pe"
PASSWORD_PEPPER == <<112, 101>>

\* the compatibility decomposition of one character, for the characters used
\* here: fullwidth "A" is "A", e-acute is "e" and the combining acute accent
CompatibilityDecomposition(cp) ==
    CASE cp = 65313 -> <<65>>
      [] cp = 233   -> <<101, 769>>
      [] OTHER      -> <<cp>>

RECURSIVE Decomposed(_)
Decomposed(text) ==
    IF text = <<>> THEN <<>>
    ELSE CompatibilityDecomposition(Head(text)) \o Decomposed(Tail(text))

\* canonical composition: "e" followed by the combining acute accent is e-acute
RECURSIVE Composed(_)
Composed(text) ==
    IF Len(text) < 2 THEN text
    ELSE IF text[1] = 101 /\ text[2] = 769
         THEN <<233>> \o Composed(SubSeq(text, 3, Len(text)))
         ELSE <<text[1]>> \o Composed(Tail(text))

\* the quick check of the normalizer: no character that decomposes or combines
IsNormalized(text) == \A i \in 1..Len(text) : text[i] \notin {233, 769, 65313}

\* unicodedata.normalize("NFKC", text)
NFKC(text) == IF IsNormalized(text) THEN text ELSE Composed(Decomposed(text))

\* the salts ph.hash may draw (os.urandom(16)): two of them
Salts == {<<7>>, <<8>>}

\* the Argon2id digest of a secret under a salt, taken as collision free
Argon2(secret, salt) == <<Len(salt)>> \o salt \o secret

\* ph.hash(secret): the encoded hash $argon2id$v=19$m=65536,t=3,p=4$salt$digest
\* as its five fields
ph_hash(secret, salt) ==
    <<"argon2id", "v=19", "m=65536,t=3,p=4", salt, Argon2(secret, salt)>>

NoException == "none"

Returned(value) == [raised |-> NoException, value |-> value]

Raised(exception) == [raised |-> exception, value |-> FALSE]

\* a verification that compares nothing
ph_verify_any(hash, secret) ==
    IF Len(hash) # 5 THEN Raised("InvalidHashError") ELSE Returned(TRUE)

\* ph.verify(hash, secret): InvalidHashError on a text that is not an encoded
\* hash, VerifyMismatchError on a digest that is not the secret's, else True
ph_verify(hash, secret) ==
    IF Len(hash) # 5 THEN Raised("InvalidHashError")
    ELSE IF hash[1] # "argon2id" \/ hash[2] # "v=19" \/ hash[3] # "m=65536,t=3,p=4"
         THEN Raised("InvalidHashError")
    ELSE IF hash[5] # Argon2(secret, hash[4]) THEN Raised("VerifyMismatchError")
    ELSE Returned(TRUE)

\* a block without try / except: what the call raises goes to the caller
Propagate(outcome) == outcome

\* try: return ...  except Exception: return False
TryExceptFalse(outcome) ==
    IF outcome.raised # NoException THEN Returned(FALSE) ELSE outcome

\* hash_password(password), for the salt ph.hash draws
hash_password(password, salt) == ph_hash(NFKC(password) \o PASSWORD_PEPPER, salt)

\* verify_password(password, hashed_password): what the call returns or raises
CallVerifyPassword(password, hashed_password) ==
    LET peppered == NFKC(password) \o PASSWORD_PEPPER
    IN  TryExceptFalse(ph_verify(hashed_password, peppered))

verify_password(password, hashed_password) ==
    CallVerifyPassword(password, hashed_password).value

\* the password hash in the users' rows: every user chose GoodPassword
StoredPasswordHash == hash_password(GoodPassword, <<7>>)

PasswordHashOf(u) == StoredPasswordHash

\* the user's is_2fa_enabled: set when the TOTP secret is confirmed
Is2faEnabled(u) == totp[u] = "confirmed"

\* login_user(p_app_id, p_email_hash, ...) and get_user_by_email: the row or none
StoreLoginUser(app_id, email_hash) ==
    IF \E u \in UserIds : UserKey(u) = [app_id |-> app_id, email_hash |-> email_hash]
    THEN CHOOSE u \in UserIds : UserKey(u) = [app_id |-> app_id, email_hash |-> email_hash]
    ELSE NoUser

\* generate_otp_secret(): one secret per user
SecretOf(u) == <<"base32", u>>

\* the code pyotp computes for a secret at the current time step
TOTPNow(secret) ==
    CASE secret[2] = "u1" -> 111111
      [] secret[2] = "u2" -> 222222
      [] secret[2] = "u3" -> 12345
      [] OTHER -> 333333

\* TOTPSecretChallengeRequest.code, an int in 100000..999999: the current code
\* of u1, of u2, and a wrong one
Codes == {111111, 222222, 999999}

\* decrypt_field: the plaintext of an AES-GCM blob
decrypt_field(blob) == blob[2]

\* str(n) of a natural number, as code points
RECURSIVE DecimalText(_)
DecimalText(n) ==
    IF n < 10 THEN <<48 + n>> ELSE Append(DecimalText(n \div 10), 48 + (n % 10))

\* a text filled with "0" on the left up to six characters
RECURSIVE ZeroPadded(_)
ZeroPadded(text) == IF Len(text) >= 6 THEN text ELSE ZeroPadded(<<48>> \o text)

\* a code as verify_otp receives it: its Python type and its str()
IntCode(n) == [type |-> "int", text |-> DecimalText(n)]

StrCode(text) == [type |-> "str", text |-> text]

\* None, whose str() is "None"
NoneCode == [type |-> "NoneType", text |-> <<78, 111, 110, 101>>]

\* the code pyotp.HOTP computes for a secret at a counter
HOTPAt(secret, counter) == (TOTPNow(secret) + 101 * (counter + 1)) % 1000000

\* pyotp's OTP.verify: binascii.Error from the base32 decoding of a secret that
\* is not base32, else str(otp) compared with the six digits expected
pyotp_verify(secret, otp_code, expected) ==
    IF secret[1] # "base32" THEN Raised("binascii.Error")
    ELSE Returned(otp_code.text = ZeroPadded(DecimalText(expected)))

\* verify_otp(secret, otp_code, method, counter): what the call returns or raises
CallVerifyOtp(secret, otp_code, method, counter) ==
    TryExceptFalse(IF method = "TOTP" THEN pyotp_verify(secret, otp_code, TOTPNow(secret))
                   ELSE IF method = "HOTP"
                        THEN pyotp_verify(secret, otp_code, HOTPAt(secret, counter))
                        ELSE Returned(FALSE))

verify_otp(secret, otp_code, method, counter) ==
    CallVerifyOtp(secret, otp_code, method, counter).value

----------------------------------------------------------------------------
\* Session and challenge issuer.

\* a session row that would go to the first user whatever the arguments
SessionRowOfFirstUser(user_id, app_id, access_token, refresh_token) ==
    [user_id |-> "u1", app_id |-> "app2",
     access_token_hash |-> hash_token(access_token),
     refresh_token_hash |-> hash_token(refresh_token)]

\* create_session(...): the row persisted for one login session
SessionRow(user_id, app_id, access_token, refresh_token) ==
    [user_id |-> user_id, app_id |-> app_id,
     access_token_hash |-> hash_token(access_token),
     refresh_token_hash |-> hash_token(refresh_token)]

\* create_mfa_challenge_session(...): the row persisted for one challenge
ChallengeRow(user_id, app_id, challenge_token) ==
    [user_id |-> user_id, app_id |-> app_id,
     challenge_token_hash |-> hash_token(challenge_token), expired |-> FALSE]

\* get_access_token(p_token_hash): the session row or none
ValidAccessToken(token) ==
    \E row \in sessions : row.access_token_hash = hash_token(token)

NoRow == [found |-> FALSE]

\* get_totp_secret(p_token_hash): challenge session joined with the user's secret
get_totp_secret(token_hash) ==
    IF \E c \in challenges : /\ c.challenge_token_hash = token_hash
                              /\ ~c.expired
                              /\ totp[c.user_id] # "none"
    THEN LET c == CHOOSE c \in challenges : c.challenge_token_hash = token_hash
         IN  [found |-> TRUE, totp_secret_id |-> c.user_id, user_id |-> c.user_id,
              app_id |-> c.app_id,
              secret_encrypted |-> encrypt_field(SecretOf(c.user_id)),
              confirmed_at |-> totp[c.user_id] = "confirmed"]
    ELSE NoRow

\* tokens a caller may present: 0 is a bearer string the store does not know
AccessTokens == {0} \cup {h.access_token : h \in issued}

ChallengeTokens == {0} \cup {t \in 1..nextToken : \E c \in challenges :
                                  c.challenge_token_hash = hash_token(t)}

----------------------------------------------------------------------------
\* Registration: register_pending_user.

\* MIN_RESPONSE_TIME_SECONDS = 0.45, in ticks of 0.05 s
MIN_RESPONSE_TIME_SECONDS == 9

\* upper end of jitter(0, 0.1), in ticks of 0.05 s
JITTER_MAX == 2

LatencyChoices == IF timed THEN {0, 1, MaxLatency} ELSE {0}

JitterChoices == IF timed THEN 0..JITTER_MAX ELSE {0}

ActiveSlots == IF timed THEN 1..NumTimedReq ELSE Slots

IdleFrame ==
    [pc |-> "idle", app_id |-> None, email |-> <<>>, token |-> 0, start |-> 0,
     t |-> 0, work |-> 0, outcome |-> "not called", expires_at |-> None, tx |-> <<>>,
     response |-> [status |-> 0, body |-> None], faults |-> {}]

\* the awaited store calls after the sleep, each of which raises when the
\* connection to the store breaks during it
StoreCallsAfterSleep == {"commit", "get_application_name"}

\* a frame's faults: the calls that may raise during that request
Outcomes(f, store_call) == IF store_call \in f.faults THEN {"ok", "raised"} ELSE {"ok"}

\* the (app_id, email_hash) a pending row or a user is unique on
RowKey(row) == [app_id |-> row.app_id, email_hash |-> row.email_hash]

PendingKeys == {RowKey(row) : row \in pending}

\* the keys of the users that confirmation created
UserKeys == {RowKey(u) : u \in users}

\* the store's answer to a key that already has a pending row or a user:
\* the unique violation raised by the insert, or no expiry at all
DuplicateSignals == {"IntegrityError", None}

\* another transaction holds an uncommitted row on the key: the insert waits
InsertWaits(r, key) ==
    \E q \in Slots : q # r /\ Len(regReq[q].tx) = 1 /\ RowKey(regReq[q].tx[1]) = key

\* register_pending_user(p_app_id, p_token_hash, p_email_encrypted, p_email_hash, ...)
StoreRegisterPendingUser(key, signal) ==
    IF key \in PendingKeys \cup Registered \cup UserKeys THEN signal ELSE "expires_at"

\* start = time.monotonic() + jitter(0, 0.1)
StartMinus(now, j) == now - j

StartOf(now, j) == now + j

\* except IntegrityError: expires_at = None
IgnoreIntegrityError(outcome) == [raised |-> FALSE, expires_at |-> "expires_at"]

RaiseIntegrityError(outcome) ==
    IF outcome = "IntegrityError"
    THEN [raised |-> TRUE, expires_at |-> None]
    ELSE [raised |-> FALSE, expires_at |-> outcome]

CatchIntegrityError(outcome) ==
    IF outcome = "IntegrityError"
    THEN [raised |-> FALSE, expires_at |-> None]
    ELSE [raised |-> FALSE, expires_at |-> outcome]

\* remaining_time = max(0, MIN_RESPONSE_TIME_SECONDS - elapsed)
RemainingTime(now, start) == Max(0, MIN_RESPONSE_TIME_SECONDS - (now - start))

\* if expires_at is None: return
NeverReturnsEarly(expires_at) == FALSE

ReturnsEarly(expires_at) == expires_at = None

\* the handler's only result: HTTP 204 without a body
NoContent == [status |-> 204, body |-> None]

\* an exception leaving the handler: the framework's 500
ServerError == [status |-> 500, body |-> "Internal Server Error"]

\* handler entry: start and verification_token
Start(r) ==
    /\ r \in ActiveSlots
    /\ regReq[r].pc = "idle"
    /\ \E a \in Apps, e \in Emails, j \in JitterChoices :
         regReq' = [regReq EXCEPT ![r] =
                      [@ EXCEPT !.pc = "started", !.app_id = a, !.email = e,
                                !.start = StartOf(0, j), !.token = nextToken + 1]]
    /\ nextToken' = nextToken + 1
    /\ UNCHANGED <<extVars, timed, pending, emails, loginVars>>

\* await db.execute(register_pending_user ...), and the except clause
ExecuteRegister(r) ==
    /\ regReq[r].pc = "started"
    /\ LET f == regReq[r]
           row == [app_id |-> f.app_id,
                   token_hash |-> hash_token(f.token),
                   email_encrypted |-> encrypt_field(f.email),
                   email_hash |-> hash_email(f.email, f.app_id)]
       IN  /\ ~InsertWaits(r, RowKey(row))
           /\ \E d \in LatencyChoices, signal \in DuplicateSignals :
                LET outcome == StoreRegisterPendingUser(RowKey(row), signal)
                    got == CatchIntegrityError(outcome)
                IN  /\ (outcome = "expires_at" => signal = None)
                    /\ regReq' = [regReq EXCEPT ![r] =
                         IF got.raised
                         THEN [@ EXCEPT !.pc = "done", !.t = f.t + d, !.outcome = outcome,
                                        !.response = ServerError]
                         ELSE [@ EXCEPT !.pc = "executed", !.t = f.t + d,
                                        !.work = f.t + d, !.outcome = outcome,
                                        !.expires_at = got.expires_at,
                                        !.tx = IF outcome = "expires_at"
                                               THEN <<row>> ELSE <<>>]]
    /\ UNCHANGED <<extVars, timed, pending, emails, nextToken, loginVars>>

\* elapsed, remaining_time, await asyncio.sleep, and the early return
FloorSleep(r) ==
    /\ regReq[r].pc = "executed"
    /\ LET f == regReq[r]
           woken == f.t + RemainingTime(f.t, f.start)
       IN  regReq' = [regReq EXCEPT ![r] =
                        IF ReturnsEarly(f.expires_at)
                        THEN [@ EXCEPT !.pc = "done", !.t = woken, !.tx = <<>>,
                                       !.response = NoContent]
                        ELSE [@ EXCEPT !.pc = "slept", !.t = woken]]
    /\ UNCHANGED <<extVars, timed, pending, emails, nextToken, loginVars>>

\* a handler that would swallow the exception of the commit
SwallowsCommitError(outcome) == TRUE

\* the statement after await db.commit() runs only when the commit returned
CommitReturned(outcome) == outcome = "ok"

\* await db.commit(): the rows of the transaction become visible, or the
\* commit raises, the session rolls back and the exception leaves the handler
Commit(r) ==
    /\ regReq[r].pc = "slept"
    /\ \E d \in LatencyChoices, outcome \in Outcomes(regReq[r], "commit") :
         /\ regReq' = [regReq EXCEPT ![r] =
                        IF CommitReturned(outcome)
                        THEN [@ EXCEPT !.pc = "committed", !.t = @ + d, !.tx = <<>>]
                        ELSE [@ EXCEPT !.pc = "done", !.t = @ + d, !.tx = <<>>,
                                       !.response = ServerError]]
         /\ pending' = IF outcome = "ok"
                       THEN pending \cup {regReq[r].tx[i] : i \in 1..Len(regReq[r].tx)}
                       ELSE pending
    /\ UNCHANGED <<extVars, timed, emails, nextToken, loginVars>>

\* send_email_background is reached only when get_application_name returned
ReachesSendEmail(outcome) == outcome = "ok"

\* get_application_name, send_email_background, and the final return
SendVerificationEmail(r) ==
    /\ regReq[r].pc = "committed"
    /\ \E d \in LatencyChoices, outcome \in Outcomes(regReq[r], "get_application_name") :
         IF ReachesSendEmail(outcome)
         THEN /\ regReq' = [regReq EXCEPT ![r] =
                             [@ EXCEPT !.pc = "done", !.t = @ + d, !.response = NoContent]]
              /\ emails' = emails \cup {[recipients |-> regReq[r].email,
                                         title |-> regReq[r].app_id,
                                         token |-> regReq[r].token]}
         ELSE /\ regReq' = [regReq EXCEPT ![r] =
                             [@ EXCEPT !.pc = "done", !.t = @ + d,
                                       !.response = ServerError]]
              /\ UNCHANGED emails
    /\ UNCHANGED <<extVars, timed, pending, nextToken, loginVars>>

----------------------------------------------------------------------------
\* Login: login_user and AuthController.login.

Detail(status, detail) == [status |-> status, detail |-> detail]

\* error_mappings.get(str(e), (500, "Unexpected error"))
ErrorMappings(message) ==
    CASE message = "User not found with specified email" -> Detail(401, "Invalid credentials")
      [] message = "Invalid password" -> Detail(401, "Invalid credentials")
      [] message = "User is suspended" -> Detail(403, "User account is suspended")
      [] OTHER -> Detail(500, "Unexpected error")

\* if not data: the failure for an unknown email
UserNotFound ==
    IF deploy.login = "login_user"
    THEN ErrorMappings("User not found with specified email")
    ELSE Detail(404, "User not found")

\* if not verify_password(...): the failure for a wrong password
InvalidPassword ==
    IF deploy.login = "login_user"
    THEN ErrorMappings("Invalid password")
    ELSE Detail(400, "Invalid password")

\* if data.is_2fa_enabled
Skips2fa(u) == FALSE

Requires2fa(u) == Is2faEnabled(u)

\* UserLogin2faResponse / UserLoginResponse: the fields the schema declares
UserLoginFields == {"id", "is_email_verified", "is_2fa_enabled"}

ModelValidate(user_dict) == [k \in UserLoginFields |-> user_dict[k]]

UserDict(u) ==
    [id |-> u, app_id |-> UserRow(u).app_id, is_email_verified |-> UserRow(u).is_email_verified,
     is_2fa_enabled |-> Is2faEnabled(u), is_suspended |-> UserRow(u).is_suspended]

LoginFailed(cause, u, password_ok, answer) ==
    /\ lastLogin' = [cause |-> cause, user |-> u, password_ok |-> password_ok,
                     is_suspended |-> IF u = NoUser THEN FALSE ELSE UserRow(u).is_suspended,
                     is_2fa_enabled |-> IF u = NoUser THEN FALSE ELSE Is2faEnabled(u),
                     status |-> answer.status, detail |-> answer.detail,
                     body_fields |-> {}, cookies |-> {},
                     new_sessions |-> {}, new_challenges |-> {}]
    /\ UNCHANGED <<nextToken, sessions, challenges, issued>>

\* the 2FA branch: create_mfa_challenge_session, then UserLogin2faResponse
LoginChallenge(u, app_id) ==
    LET challenge_token == nextToken + 1
        user_dict == [k \in DOMAIN UserDict(u) \cup {"challenge_token"} |->
                        IF k = "challenge_token" THEN challenge_token ELSE UserDict(u)[k]]
    IN  /\ nextToken + 1 <= MaxTokens
        /\ nextToken' = nextToken + 1
        /\ challenges' = challenges \cup {ChallengeRow(u, app_id, challenge_token)}
        /\ lastLogin' = [cause |-> "ok", user |-> u, password_ok |-> TRUE,
                         is_suspended |-> UserRow(u).is_suspended,
                         is_2fa_enabled |-> Is2faEnabled(u),
                         status |-> 200, detail |-> "none",
                         body_fields |-> DOMAIN ModelValidate(user_dict), cookies |-> {},
                         new_sessions |-> {},
                         new_challenges |-> challenges' \ challenges]
        /\ UNCHANGED <<sessions, issued>>

\* the plain branch: create_login_session, then the response with cookies
LoginSession(u, app_id) ==
    LET access_token == nextToken + 1
        refresh_token == nextToken + 2
    IN  /\ nextToken + 2 <= MaxTokens
        /\ nextToken' = nextToken + 2
        /\ sessions' = sessions \cup {SessionRow(u, app_id, access_token, refresh_token)}
        /\ issued' = issued \cup {[access_token |-> access_token, user_id |-> u,
                                   app_id |-> app_id, via |-> "login",
                                   two_fa_at_issue |-> Is2faEnabled(u),
                                   otp_verified |-> FALSE, challenge |-> 0]}
        /\ lastLogin' = [cause |-> "ok", user |-> u, password_ok |-> TRUE,
                         is_suspended |-> UserRow(u).is_suspended,
                         is_2fa_enabled |-> Is2faEnabled(u),
                         status |-> 200, detail |-> "none",
                         body_fields |-> DOMAIN ModelValidate(UserDict(u)),
                         cookies |-> IF deploy.login = "login_user"
                                     THEN {"access_token", "refresh_token"} ELSE {},
                         new_sessions |-> sessions' \ sessions,
                         new_challenges |-> {}]
        /\ UNCHANGED challenges

\* the request bodies tried: every (app, address) with the right and a wrong
\* password, or the right password only
AnyCredentials == Apps \X {EmailTagged, EmailOther} \X {GoodPassword, BadPassword}

\* the right password, in the application whose users enrol in 2FA
GoodCredentials == {c \in AnyCredentials : c[1] = "app2" /\ c[3] = GoodPassword}

\* a wrong password for every (app, address): callers who do not know one
WrongCredentials == {c \in AnyCredentials : c[3] = BadPassword}

\* the users a TOTP setup request may name
SetupUsers == {"u1", "u2"}

\* one login request, from the lookup to the response
Login(credentials) ==
    /\ \E c \in credentials :
         LET app_id == c[1]
             email == c[2]
             password == c[3]
             data == StoreLoginUser(app_id, hash_email(email, app_id))
         IN  IF data = NoUser
             THEN LoginFailed("unknown email", NoUser, FALSE, UserNotFound)
             ELSE IF ~verify_password(password, PasswordHashOf(data))
             THEN LoginFailed("wrong password", data, FALSE, InvalidPassword)
             ELSE IF Requires2fa(data)
             THEN LoginChallenge(data, app_id)
             ELSE LoginSession(data, app_id)
    /\ UNCHANGED <<extVars, regVars, deploy, totp, mfaReq, failedChallenges>>

----------------------------------------------------------------------------
\* MFA: setup_totp_secret and confirm_2fa.

MfaSlots == 1..NumMfaReq

IdleMfa ==
    [pc |-> "idle", challenge |-> 0, data |-> NoRow, otp_ok |-> FALSE, status |-> 0,
     detail |-> "none", cookies |-> {}, is_2fa_enabled |-> FALSE, confirm_called |-> FALSE]

\* setup_totp_secret: insert the secret, commit, open a challenge session
SetupTotpSecret ==
    /\ \E user_id \in SetupUsers, authorization \in AccessTokens :
         /\ deploy.mfa = "routers" => ValidAccessToken(authorization)
         /\ totp[user_id] = "none"
         /\ nextToken + 1 <= MaxTokens
         /\ totp' = [totp EXCEPT ![user_id] = "unconfirmed"]
         /\ nextToken' = nextToken + 1
         /\ challenges' = challenges \cup
                            {ChallengeRow(user_id, UserRow(user_id).app_id, nextToken + 1)}
    /\ UNCHANGED <<extVars, regVars, deploy, sessions, mfaReq, lastLogin, issued, failedChallenges>>

\* the challenge session's TTL runs out
ExpireChallenge ==
    /\ \E c \in challenges :
         /\ ~c.expired
         /\ challenges' = (challenges \ {c}) \cup {[c EXCEPT !.expired = TRUE]}
    /\ UNCHANGED <<extVars, regVars, nextToken, deploy, sessions, totp, mfaReq, lastLogin,
                   issued, failedChallenges>>

\* the header checks and lookups before the TOTP check:
\* require_access_token and require_challenge_token, or the handler's own
ResolveChallenge(m) ==
    /\ mfaReq[m].pc \in {"idle", "done"}
    /\ \E authorization \in AccessTokens, challenge \in ChallengeTokens :
         LET data == get_totp_secret(hash_token(challenge))
         IN  mfaReq' = [mfaReq EXCEPT ![m] =
               IF deploy.mfa = "routers" /\ ~ValidAccessToken(authorization)
               THEN [IdleMfa EXCEPT !.pc = "done", !.status = 401,
                                    !.detail = "Invalid or expired access token"]
               ELSE IF ~data.found
               THEN IF deploy.mfa = "routers"
                    THEN [IdleMfa EXCEPT !.pc = "done", !.status = 401,
                                         !.detail = "TOTP challenge token invalid or expired"]
                    ELSE [IdleMfa EXCEPT !.pc = "done", !.status = 404,
                                         !.detail = "TOTP secret not found for user"]
               ELSE [IdleMfa EXCEPT !.pc = "resolved", !.challenge = challenge,
                                    !.data = data]]
    /\ UNCHANGED <<extVars, regVars, nextToken, deploy, sessions, challenges, totp, lastLogin,
                   issued, failedChallenges>>

\* if not verify_otp(...): raise HTTPException(401, "Invalid TOTP code")
NeverRejects(otp_ok) == FALSE

RejectsCode(otp_ok) == ~otp_ok

\* if not challenge_data.confirmed_at: confirm_totp_secret, commit
ConfirmsSecret(data) == deploy.mfa = "routers" /\ ~data.confirmed_at

\* the TOTP check and what follows it
Confirm2fa(m) ==
    /\ mfaReq[m].pc = "resolved"
    /\ \E code \in Codes :
         LET f == mfaReq[m]
             otp_ok == verify_otp(decrypt_field(f.data.secret_encrypted), IntCode(code),
                                 "TOTP", 0)
             access_token == nextToken + 1
             refresh_token == nextToken + 2
         IN  IF RejectsCode(otp_ok)
             THEN /\ mfaReq' = [mfaReq EXCEPT ![m] =
                                  [IdleMfa EXCEPT !.pc = "done", !.otp_ok = otp_ok,
                                                  !.status = 401,
                                                  !.detail = "Invalid TOTP code"]]
                  /\ failedChallenges' = failedChallenges \cup {f.challenge}
                  /\ UNCHANGED <<nextToken, sessions, totp, issued>>
             ELSE /\ nextToken + 2 <= MaxTokens
                  /\ totp' = IF ConfirmsSecret(f.data)
                             THEN [totp EXCEPT ![f.data.totp_secret_id] = "confirmed"]
                             ELSE totp
                  /\ nextToken' = nextToken + 2
                  /\ sessions' = sessions \cup
                       {SessionRow(f.data.user_id, f.data.app_id, access_token, refresh_token)}
                  /\ issued' = issued \cup
                       {[access_token |-> access_token, user_id |-> f.data.user_id,
                         app_id |-> f.data.app_id, via |-> "confirm_2fa",
                         two_fa_at_issue |-> totp'[f.data.user_id] = "confirmed",
                         otp_verified |-> otp_ok, challenge |-> f.challenge]}
                  /\ mfaReq' = [mfaReq EXCEPT ![m] =
                                  [IdleMfa EXCEPT !.pc = "done", !.otp_ok = otp_ok,
                                                  !.status = 200, !.is_2fa_enabled = TRUE,
                                                  !.cookies = IF deploy.mfa = "routers"
                                                              THEN {"access_token", "refresh_token"}
                                                              ELSE {}]]
                  /\ UNCHANGED failedChallenges
    /\ UNCHANGED <<extVars, regVars, deploy, challenges, lastLogin>>

----------------------------------------------------------------------------
\* confirm_2fa step by step: between the lookups of its dependencies, the
\* call of confirm_totp_secret and create_login_session the handler awaits,
\* and another request may run.

\* verify_otp, then confirm_totp_secret and its commit
Confirm2faCheck(m) ==
    /\ mfaReq[m].pc = "resolved"
    /\ \E code \in Codes :
         LET f == mfaReq[m]
             otp_ok == verify_otp(decrypt_field(f.data.secret_encrypted), IntCode(code),
                                 "TOTP", 0)
         IN  IF RejectsCode(otp_ok)
             THEN /\ mfaReq' = [mfaReq EXCEPT ![m] =
                                  [IdleMfa EXCEPT !.pc = "done", !.otp_ok = otp_ok,
                                                  !.status = 401,
                                                  !.detail = "Invalid TOTP code"]]
                  /\ failedChallenges' = failedChallenges \cup {f.challenge}
                  /\ UNCHANGED totp
             ELSE /\ totp' = IF ConfirmsSecret(f.data)
                             THEN [totp EXCEPT ![f.data.totp_secret_id] = "confirmed"]
                             ELSE totp
                  /\ mfaReq' = [mfaReq EXCEPT ![m] =
                                  [f EXCEPT !.pc = "verified", !.otp_ok = otp_ok,
                                            !.confirm_called = ConfirmsSecret(f.data)]]
                  /\ UNCHANGED failedChallenges
    /\ UNCHANGED <<extVars, regVars, nextToken, deploy, sessions, challenges, lastLogin, issued>>

\* get_email_verification_status, create_login_session and the response
Confirm2faSession(m) ==
    /\ mfaReq[m].pc = "verified"
    /\ LET f == mfaReq[m]
           access_token == nextToken + 1
           refresh_token == nextToken + 2
       IN  /\ nextToken + 2 <= MaxTokens
           /\ nextToken' = nextToken + 2
           /\ sessions' = sessions \cup
                {SessionRow(f.data.user_id, f.data.app_id, access_token, refresh_token)}
           /\ issued' = issued \cup
                {[access_token |-> access_token, user_id |-> f.data.user_id,
                  app_id |-> f.data.app_id, via |-> "confirm_2fa",
                  two_fa_at_issue |-> totp[f.data.user_id] = "confirmed",
                  otp_verified |-> f.otp_ok, challenge |-> f.challenge]}
           /\ mfaReq' = [mfaReq EXCEPT ![m] =
                           [f EXCEPT !.pc = "done", !.status = 200, !.is_2fa_enabled = TRUE,
                                     !.cookies = IF deploy.mfa = "routers"
                                                 THEN {"access_token", "refresh_token"}
                                                 ELSE {}]]
    /\ UNCHANGED <<extVars, regVars, deploy, challenges, totp, lastLogin, failedChallenges>>

----------------------------------------------------------------------------
\* The issuer step by step: create_login_session, create_mfa_challenge_session.

\* no issuer call in flight
IdleIssue ==
    [pc |-> "idle", kind |-> None, user_id |-> NoUser, app_id |-> None, tokens |-> <<>>,
     tx |-> {}, returned |-> <<>>]

\* how an awaited store call may end: it returns, it raises, or the task is
\* cancelled (timeout, client gone) while it waits
StoreOutcomes == {"ok", "error", "cancelled"}

\* access_token = create_token(); refresh_token = create_token()
\* or challenge_token = create_token()
IssueStart ==
    /\ issue.pc \in {"idle", "returned", "failed"}
    /\ \E kind \in {"session", "challenge"}, u \in UserIds :
         LET n == IF kind = "session" THEN 2 ELSE 1
         IN  /\ nextToken + n <= MaxTokens
             /\ nextToken' = nextToken + n
             /\ issue' = [IdleIssue EXCEPT !.pc = "created", !.kind = kind, !.user_id = u,
                                           !.app_id = UserRow(u).app_id,
                                           !.tokens = [i \in 1..n |-> nextToken + i]]
    /\ UNCHANGED <<regVars, loginVars, handedOut, confVars, fnVars>>

\* await db.execute(create_session ...) / CALL create_mfa_challenge_session:
\* the row joins the open transaction, or the exception leaves the function
IssueExecute ==
    /\ issue.pc = "created"
    /\ \E outcome \in StoreOutcomes :
         issue' = IF outcome = "ok"
                  THEN [issue EXCEPT !.pc = "executed",
                          !.tx = IF issue.kind = "session"
                                 THEN {SessionRow(issue.user_id, issue.app_id,
                                                  issue.tokens[1], issue.tokens[2])}
                                 ELSE {ChallengeRow(issue.user_id, issue.app_id,
                                                    issue.tokens[1])}]
                  ELSE [issue EXCEPT !.pc = "failed"]
    /\ UNCHANGED <<regVars, nextToken, loginVars, handedOut, confVars, fnVars>>

\* await db.commit(): the transaction is made durable, or the exception leaves
\* the function; a commit that was cut off may or may not have been applied
IssueCommit ==
    /\ issue.pc = "executed"
    /\ \E outcome \in StoreOutcomes, applied \in BOOLEAN :
         /\ outcome = "ok" => applied
         /\ outcome = "error" => ~applied
         /\ issue' = [issue EXCEPT !.pc = IF outcome = "ok" THEN "committed" ELSE "failed",
                                   !.tx = {}]
         /\ sessions' = IF applied /\ issue.kind = "session"
                         THEN sessions \cup issue.tx ELSE sessions
         /\ challenges' = IF applied /\ issue.kind = "challenge"
                           THEN challenges \cup issue.tx ELSE challenges
    /\ UNCHANGED <<regVars, nextToken, deploy, totp, mfaReq, lastLogin, issued,
                   failedChallenges, handedOut, confVars, fnVars>>

\* the statement that hands the plaintext out comes after the commit
ReturnsOnFailure(pc) == pc \in {"committed", "failed"}

ReachesReturn(pc) == pc = "committed"

\* return {"access_token": ..., "refresh_token": ...} / return challenge_token
IssueReturn ==
    /\ ReachesReturn(issue.pc)
    /\ issue' = [issue EXCEPT !.pc = "returned", !.returned = issue.tokens]
    /\ handedOut' = handedOut \cup {issue.tokens[i] : i \in 1..Len(issue.tokens)}
    /\ UNCHANGED <<regVars, nextToken, loginVars, confVars, fnVars>>

----------------------------------------------------------------------------
\* Confirmation of a registration: confirm_pending_user.

ConfSlots == 1..NumConf

\* the five conditions the store raises, in the order error_mappings lists them
ERROR_ORDER ==
    <<"Pending user not found", "Invalid verification token", "Token has expired",
      "Registration has expired", "User already exists">>

StoreConditions == {ERROR_ORDER[i] : i \in 1..Len(ERROR_ORDER)}

\* error_mappings[error_msg]
ConfirmErrorMappings(error_msg) ==
    CASE error_msg = "Pending user not found" ->
           Detail(404, "Invalid or expired verification token")
      [] error_msg = "Invalid verification token" -> Detail(404, "Invalid verification token")
      [] error_msg = "Token has expired" -> Detail(410, "Verification token has expired")
      [] error_msg = "Registration has expired" -> Detail(410, "Registration has expired")
      [] OTHER -> Detail(409, "User account already exists")

\* raise: the exception leaves the handler unmapped
Unexpected == Detail(500, "Internal Server Error")

\* the User-Agent header of the request, a text the caller chooses
UserAgents == {"Mozilla/5.0", "Pending user not found"}

\* failures that are none of the five conditions, by the text they carry
UnexpectedFailures == {"connection was closed", "cache entry: User already exists"}

\* the pieces of text that "error_msg in error_str" finds in an unexpected
\* failure: the text itself, and a message of the five it happens to contain
Fragments(text) ==
    IF text = "cache entry: User already exists" THEN {text, "User already exists"} ELSE {text}

\* error_str = str(e) for an exception of the store call: the message raised,
\* followed by the statement and its bound parameters, user_agent among them
ExceptionText(raised, user_agent) == Fragments(raised) \cup {user_agent}

\* for error_msg, ... in error_mappings.items(): if error_msg in error_str
MapsToFirst(error_str) ==
    LET hits == {i \in 1..Len(ERROR_ORDER) : ERROR_ORDER[i] \in error_str}
    IN  IF hits = {} THEN Unexpected ELSE ConfirmErrorMappings(ERROR_ORDER[MinOf(hits)])

IdleConf == [pc |-> "idle", app_id |-> None, token_hash |-> <<>>, user_agent |-> None, tx |-> {}]

\* what a finished request leaves: the store's answer and the response
Finished(cause, response, committed) ==
    [cause |-> cause, response |-> response, committed |-> committed]

NoConfirm == Finished("none", [status |-> 0, detail |-> "none", user_id |-> {}], {})

\* the tokens a caller may present: the ones mailed out, and one never issued
ConfirmTokens == {0} \cup {m.token : m \in emails}

\* another confirmation holds the pending row in its open transaction
ConfirmWaits(c, rows) ==
    \E q \in ConfSlots : q # c /\ \E t \in conf[q].tx : t.consumed \in rows

\* confirm_pending_user(p_app_id, p_token_hash, p_password, ...): what the
\* procedure may answer for the rows the token hash selects
StoreConfirmPendingUser(rows) ==
    IF rows = {}
    THEN {"Pending user not found", "Invalid verification token"}
    ELSE IF \E row \in rows : RowKey(row) \in Registered \cup UserKeys
    THEN {"User already exists"}
    ELSE {"created", "Token has expired", "Registration has expired"}

\* the users row the procedure creates from a pending row
NewUser(row, password_hash) ==
    [id |-> <<"user", row.token_hash>>, app_id |-> row.app_id, email_hash |-> row.email_hash,
     email_encrypted |-> row.email_encrypted, password_hash |-> password_hash]

Answer(detail, user_id) ==
    [status |-> detail.status, detail |-> detail.detail, user_id |-> user_id]

\* the header check, the store call, and the except clause
ConfirmExecute(c) ==
    /\ conf[c].pc = "idle"
    /\ \E app_id \in Apps, token \in ConfirmTokens, user_agent \in UserAgents,
          authorization \in {"Bearer", None} :
         IF authorization = None
         THEN /\ lastConfirm' = Finished("no header", Answer(Detail(401,
                                   "Authorization header missing or invalid format"), {}), {})
              /\ UNCHANGED conf
         ELSE LET arg == hash_token(token)
                  rows == {row \in pending : row.app_id = app_id /\ row.token_hash = arg}
              IN  /\ ~ConfirmWaits(c, rows)
                  /\ \E answer \in StoreConfirmPendingUser(rows) \cup UnexpectedFailures,
                        salt \in Salts :
                       IF answer = "created"
                       THEN /\ conf' = [conf EXCEPT ![c] =
                                 [pc |-> "executed", app_id |-> app_id, token_hash |-> arg,
                                  user_agent |-> user_agent,
                                  tx |-> {[user |-> NewUser(row, hash_password(GoodPassword, salt)),
                                           consumed |-> row] : row \in rows}]]
                            /\ UNCHANGED lastConfirm
                       ELSE /\ lastConfirm' = Finished(answer,
                                 Answer(MapsToFirst(ExceptionText(answer, user_agent)), {}), {})
                            /\ UNCHANGED conf
    /\ UNCHANGED <<regVars, nextToken, loginVars, issueVars, users, fnVars>>

\* the statement that builds the 201 response comes after the commit
AnswersBeforeCommit(outcome) == TRUE

Committed(outcome) == outcome = "ok"

\* await db.commit(), then RegisterConfirmationResponse(user_id=result.scalar())
ConfirmCommit(c) ==
    /\ conf[c].pc = "executed"
    /\ \E outcome \in {"ok"} \cup UnexpectedFailures :
         LET f == conf[c]
             applied == outcome = "ok"
             created == IF applied THEN {t.user : t \in f.tx} ELSE {}
         IN  /\ users' = users \cup created
             /\ pending' = IF applied THEN pending \ {t.consumed : t \in f.tx} ELSE pending
             /\ conf' = [conf EXCEPT ![c] = IdleConf]
             /\ lastConfirm' =
                   IF Committed(outcome)
                   THEN Finished("created", [status |-> 201, detail |-> "none",
                                             user_id |-> {t.user.id : t \in f.tx}], created)
                   ELSE Finished(outcome,
                          Answer(MapsToFirst(ExceptionText(outcome, f.user_agent)), {}), created)
    /\ UNCHANGED <<timed, regReq, emails, nextToken, loginVars, issueVars, fnVars>>

----------------------------------------------------------------------------
\* Field encryption at the level of bytes.  A str is a sequence of code points,
\* bytes are a sequence of 0..255, base64 text is a sequence of alphabet indices
\* 0..63 with 64 for "=".  (The handlers above keep a blob as a sealed value.)

\* characters with a UTF-8 encoding of one, two, three and four bytes:
\* "A", e-acute, the euro sign, an emoji
Alphabet == {65, 233, 8364, 128512}

RECURSIVE StringsUpTo(_)
StringsUpTo(n) ==
    IF n = 0 THEN {<<>>}
    ELSE LET shorter == StringsUpTo(n - 1)
         IN  shorter \cup {Append(s, ch) : s \in shorter, ch \in Alphabet}

Strings == StringsUpTo(MaxLen)

\* what a failed decoding or authentication raises, as a result no text equals
Raises == <<-1>>

\* the bytes of one code point under UTF-8
EncodeChar(cp) ==
    IF cp < 128 THEN <<cp>>
    ELSE IF cp < 2048 THEN <<192 + (cp \div 64), 128 + (cp % 64)>>
    ELSE IF cp < 65536
         THEN <<224 + (cp \div 4096), 128 + ((cp \div 64) % 64), 128 + (cp % 64)>>
         ELSE <<240 + (cp \div 262144), 128 + ((cp \div 4096) % 64),
                128 + ((cp \div 64) % 64), 128 + (cp % 64)>>

\* value.encode("utf-8")
RECURSIVE utf8_encode(_)
utf8_encode(value) ==
    IF value = <<>> THEN <<>>
    ELSE EncodeChar(Head(value)) \o utf8_encode(Tail(value))

\* decoding that takes every byte for one character
latin1_decode(data) == data

\* the number of bytes a UTF-8 sequence has, by its first byte; 0: not a first byte
SequenceLength(lead) ==
    IF lead < 128 THEN 1
    ELSE IF lead >= 192 /\ lead < 224 THEN 2
    ELSE IF lead >= 224 /\ lead < 240 THEN 3
    ELSE IF lead >= 240 /\ lead < 248 THEN 4
    ELSE 0

\* the code point of one UTF-8 sequence
DecodeChar(b) ==
    CASE Len(b) = 1 -> b[1]
      [] Len(b) = 2 -> (b[1] - 192) * 64 + (b[2] - 128)
      [] Len(b) = 3 -> (b[1] - 224) * 4096 + (b[2] - 128) * 64 + (b[3] - 128)
      [] OTHER     -> (b[1] - 240) * 262144 + (b[2] - 128) * 4096 + (b[3] - 128) * 64
                      + (b[4] - 128)

\* .decode("utf-8"): UnicodeDecodeError on a byte that starts no sequence, on a
\* sequence cut short and on a continuation byte out of range
RECURSIVE utf8_decode(_)
utf8_decode(data) ==
    IF data = <<>> THEN <<>>
    ELSE LET n == SequenceLength(data[1])
         IN  IF n = 0 \/ n > Len(data) \/ \E i \in 2..n : data[i] < 128 \/ data[i] >= 192
             THEN Raises
             ELSE LET rest == utf8_decode(SubSeq(data, n + 1, Len(data)))
                  IN  IF rest = Raises THEN Raises
                      ELSE <<DecodeChar(SubSeq(data, 1, n))>> \o rest

\* exclusive or of two numbers of n bits
RECURSIVE BitXor(_, _, _)
BitXor(a, b, n) ==
    IF n = 0 THEN 0
    ELSE (((a % 2) + (b % 2)) % 2) + 2 * BitXor(a \div 2, b \div 2, n - 1)

\* os.urandom(12): three of the 2^96 values
IVs == {[i \in 1..12 |-> 0], [i \in 1..12 |-> (17 * i) % 256], [i \in 1..12 |-> 255]}

\* the key stream of AES in counter mode under AES_KEY: byte i for an iv
KeyStream(iv, i) == (iv[((i - 1) % 12) + 1] * 7 + 31 * i + 99) % 256

RECURSIVE SumBytes(_)
SumBytes(data) == IF data = <<>> THEN 0 ELSE Head(data) + SumBytes(Tail(data))

\* the 16 bytes of the authentication tag over iv and cipher text
Tag(iv, body) ==
    [j \in 1..16 |-> (SumBytes(iv) + 3 * SumBytes(body) + 5 * Len(body) + 11 * j) % 256]

\* AESGCM(AES_KEY).encrypt(iv, data, None): cipher text followed by the tag
AESGCM_encrypt(iv, data) ==
    LET body == [i \in 1..Len(data) |-> BitXor(data[i], KeyStream(iv, i), 8)]
    IN  body \o Tag(iv, body)

\* AESGCM(AES_KEY).decrypt(iv, data, None): InvalidTag unless the tag matches
AESGCM_decrypt(iv, data) ==
    IF Len(data) < 16 THEN Raises
    ELSE LET body == SubSeq(data, 1, Len(data) - 16)
             tag  == SubSeq(data, Len(data) - 15, Len(data))
         IN  IF tag # Tag(iv, body) THEN Raises
             ELSE [i \in 1..Len(body) |-> BitXor(body[i], KeyStream(iv, i), 8)]

\* base64.b64encode: three bytes to four characters, "=" for what is missing
RECURSIVE b64encode(_)
b64encode(s) ==
    IF Len(s) = 0 THEN <<>>
    ELSE IF Len(s) = 1 THEN <<s[1] \div 4, (s[1] % 4) * 16, 64, 64>>
    ELSE IF Len(s) = 2
         THEN <<s[1] \div 4, (s[1] % 4) * 16 + (s[2] \div 16), (s[2] % 16) * 4, 64>>
         ELSE <<s[1] \div 4, (s[1] % 4) * 16 + (s[2] \div 16),
                (s[2] % 16) * 4 + (s[3] \div 64), s[3] % 64>>
              \o b64encode(SubSeq(s, 4, Len(s)))

\* base64.b64decode: four characters to three bytes; binascii.Error on a group
\* cut short
RECURSIVE b64decode(_)
b64decode(t) ==
    IF Len(t) = 0 THEN <<>>
    ELSE IF Len(t) < 4 \/ t[1] = 64 \/ t[2] = 64 THEN Raises
    ELSE LET group == IF t[3] = 64 THEN <<t[1] * 4 + (t[2] \div 16)>>
                      ELSE IF t[4] = 64
                           THEN <<t[1] * 4 + (t[2] \div 16), (t[2] % 16) * 16 + (t[3] \div 4)>>
                           ELSE <<t[1] * 4 + (t[2] \div 16), (t[2] % 16) * 16 + (t[3] \div 4),
                                  (t[3] % 4) * 64 + t[4]>>
             rest == b64decode(SubSeq(t, 5, Len(t)))
         IN  IF rest = Raises THEN Raises ELSE group \o rest

IdleCrypt == [pc |-> "idle", value |-> <<>>, encrypted |-> <<>>, decrypted |-> <<>>]

\* encrypt_field(value): base64 of the iv followed by the cipher text
EncryptField ==
    /\ crypt.pc = "called"
    /\ \E iv \in IVs :
         LET ciphertext == AESGCM_encrypt(iv, utf8_encode(crypt.value))
         IN  crypt' = [crypt EXCEPT !.pc = "encrypted",
                                    !.encrypted = b64encode(iv \o ciphertext)]
    /\ UNCHANGED <<storeVars, pw, otp, valid, call>>

\* decrypt_field(encrypted_base64): the first 12 bytes are the iv
DecryptField ==
    /\ crypt.pc = "encrypted"
    /\ LET data == b64decode(crypt.encrypted)
           iv == SubSeq(data, 1, 12)
           ciphertext == SubSeq(data, 13, Len(data))
           plain == IF data = Raises THEN Raises ELSE AESGCM_decrypt(iv, ciphertext)
           text == IF plain = Raises THEN Raises ELSE utf8_decode(plain)
       IN  crypt' = IF text = Raises THEN [crypt EXCEPT !.pc = "raised"]
                    ELSE [crypt EXCEPT !.pc = "decrypted", !.decrypted = text]
    /\ UNCHANGED <<storeVars, pw, otp, valid, call>>

----------------------------------------------------------------------------
\* Password hashing and verification as functions.

\* characters that follow the stem: "A", fullwidth "A", "e", the combining acute
TailAlphabet == {65, 65313, 101, 769}

RECURSIVE TailsUpTo(_)
TailsUpTo(n) ==
    IF n = 0 THEN {<<>>}
    ELSE LET shorter == TailsUpTo(n - 1)
         IN  shorter \cup {Append(s, ch) : s \in shorter, ch \in TailAlphabet}

\* passwords that pass validate_password_complexity: a stem that does, and a tail
Passwords == {GoodPassword \o tail : tail \in TailsUpTo(MaxTail)}

\* what a caller may offer as the password: any of them, or nothing
Candidates == Passwords \cup {<<>>}

\* the stored hash as verify_password may receive it: as hash_password made it,
\* with its last field cut off, with the digest cut short, with the digest
\* changed, of another scheme, and no hash at all
StoredHashes(hashed) ==
    {hashed,
     SubSeq(hashed, 1, 4),
     [hashed EXCEPT ![5] = SubSeq(hashed[5], 1, Len(hashed[5]) - 1)],
     [hashed EXCEPT ![5] = Append(SubSeq(hashed[5], 1, Len(hashed[5]) - 1), 120)],
     [hashed EXCEPT ![1] = "bcrypt"],
     <<>>}

IdlePw == [pc |-> "idle", password |-> <<>>, hashed |-> <<>>, candidate |-> <<>>,
           stored |-> <<>>, raised |-> NoException, result |-> FALSE]

\* hash_password(password)
HashPassword ==
    /\ pw.pc = "called"
    /\ \E salt \in Salts :
         pw' = [pw EXCEPT !.pc = "hashed", !.hashed = hash_password(pw.password, salt)]
    /\ UNCHANGED <<storeVars, crypt, otp, valid, call>>

\* verify_password(candidate, stored)
VerifyPassword ==
    /\ pw.pc = "hashed"
    /\ \E candidate \in Candidates, stored \in StoredHashes(pw.hashed) :
         LET outcome == CallVerifyPassword(candidate, stored)
         IN  pw' = [pw EXCEPT !.pc = IF outcome.raised = NoException THEN "verified"
                                     ELSE "raised",
                              !.candidate = candidate, !.stored = stored,
                              !.raised = outcome.raised, !.result = outcome.value]
    /\ UNCHANGED <<storeVars, crypt, otp, valid, call>>

----------------------------------------------------------------------------
\* One-time password verification as a function.

\* secrets: those of u1 and u2, and a text that is not base32
OtpSecrets == {SecretOf("u1"), SecretOf("u2"), <<"not_a_valid_secret", "none">>}

\* codes: the current TOTP codes of u1 and u2 as int and as str, the HOTP code of
\* u1 at counter 0, "000000", five digits, seven digits, letters, and None
OtpCodes ==
    {IntCode(111111), IntCode(222222), StrCode(DecimalText(111111)),
     StrCode(DecimalText(222222)), StrCode(DecimalText(111212)),
     StrCode(<<48, 48, 48, 48, 48, 48>>), StrCode(DecimalText(11111)),
     StrCode(DecimalText(1111111)), StrCode(<<97, 98, 99>>), NoneCode}

OtpMethods == {"TOTP", "HOTP", "SMS"}

OtpCounters == {0, 1}

IdleOtp == [pc |-> "idle", secret |-> SecretOf("u1"), otp_code |-> NoneCode,
            method |-> "TOTP", counter |-> 0, raised |-> NoException, result |-> FALSE]

\* verify_otp(secret, otp_code, method, counter)
VerifyOtp ==
    /\ otp.pc = "called"
    /\ LET outcome == CallVerifyOtp(otp.secret, otp.otp_code, otp.method, otp.counter)
       IN  otp' = [otp EXCEPT !.pc = IF outcome.raised = NoException THEN "verified"
                                     ELSE "raised",
                              !.raised = outcome.raised, !.result = outcome.value]
    /\ UNCHANGED <<storeVars, crypt, pw, valid, call>>

----------------------------------------------------------------------------
\* The lookup key of an address at registration and at login.

\* a key that would leave the application out
UnscopedKey(email, app_id) == hash_email(email, "none")

\* register: email_hash=hash_email(request_body.email, request_body.app_id)
RegisterKey(email, app_id) == hash_email(email, app_id)

\* login_user: "email_hash": hash_email(request_body.email, request_body.app_id)
LoginKey(email, app_id) == hash_email(email, app_id)

\* the registration computes the key of its address
RegisterLookupKey ==
    /\ call.pc = "called"
    /\ call' = [call EXCEPT !.pc = "registered",
                            !.register_key = RegisterKey(call.email, call.app_id)]
    /\ UNCHANGED <<storeVars, crypt, pw, otp, valid>>

\* a later login computes the key of the address it was given
LoginLookupKey ==
    /\ call.pc = "registered"
    /\ call' = [call EXCEPT !.pc = "looked up",
                            !.login_key = LoginKey(call.other, call.other_app)]
    /\ UNCHANGED <<storeVars, crypt, pw, otp, valid>>

----------------------------------------------------------------------------
\* The event loop: the handlers are coroutines of one thread. A coroutine
\* gives the thread up at an await and nowhere else; a call without await
\* runs on the thread until it returns.

\* Argon2id of verify_password and the HMAC of verify_otp, in steps of the CPU
VerifyWork(kind) == IF kind = "login_user" THEN HashSteps ELSE OtpSteps

LoopSlots == 1..NumLoopReq

IdleCoroutine == [kind |-> "none", pc |-> "idle", remaining |-> 0]

\* the loop takes a request and runs its handler up to the first await: the
\* lookup of the user, or of the TOTP secret of the challenge
LoopAccept(r) ==
    /\ call.running = 0
    /\ call.reqs[r].pc = "idle"
    /\ \E kind \in {"login_user", "confirm_2fa"} :
         call' = [call EXCEPT !.reqs[r] = [kind |-> kind, pc |-> "awaiting lookup",
                                           remaining |-> 0]]
    /\ UNCHANGED <<storeVars, crypt, pw, otp, valid>>

\* the store answers: the coroutine is ready to be resumed
LookupAnswers(r) ==
    /\ call.reqs[r].pc = "awaiting lookup"
    /\ call' = [call EXCEPT !.reqs[r].pc = "ready"]
    /\ UNCHANGED <<storeVars, crypt, pw, otp, valid>>

\* the loop resumes the coroutine, which calls verify_password or verify_otp
LoopResume(r) ==
    /\ call.running = 0
    /\ call.reqs[r].pc = "ready"
    /\ call' = [call EXCEPT !.running = r, !.reqs[r].pc = "verifying",
                            !.reqs[r].remaining = VerifyWork(call.reqs[r].kind)]
    /\ UNCHANGED <<storeVars, crypt, pw, otp, valid>>

\* if not verify_password(...) / if not verify_otp(...): the call computes
VerifyStep(r) ==
    /\ call.running = r
    /\ call.reqs[r].pc = "verifying"
    /\ call.reqs[r].remaining > 0
    /\ call' = [call EXCEPT !.reqs[r].remaining = @ - 1]
    /\ UNCHANGED <<storeVars, crypt, pw, otp, valid>>

\* the call has returned; the handler reaches its next await, the store call
\* that creates the session, and gives the thread up
LoopAwait(r) ==
    /\ call.running = r
    /\ call.reqs[r].pc = "verifying"
    /\ call.reqs[r].remaining = 0
    /\ call' = [call EXCEPT !.running = 0, !.reqs[r].pc = "awaiting session"]
    /\ UNCHANGED <<storeVars, crypt, pw, otp, valid>>

\* the session is stored; the loop resumes the coroutine, which returns
LoopReturn(r) ==
    /\ call.running = 0
    /\ call.reqs[r].pc = "awaiting session"
    /\ call' = [call EXCEPT !.reqs[r].pc = "done"]
    /\ UNCHANGED <<storeVars, crypt, pw, otp, valid>>

----------------------------------------------------------------------------
\* The code of a confirm_2fa request, from the request body to verify_otp.

\* int(text) of a text of ASCII digits
RECURSIVE IntOfText(_)
IntOfText(text) ==
    IF text = <<>> THEN 0
    ELSE 10 * IntOfText(SubSeq(text, 1, Len(text) - 1)) + (text[Len(text)] - 48)

\* the six digits an authenticator shows: the current codes of u1, u2 and u3,
\* the least and the greatest code with and without a leading zero, and others
ShownCodes == {ZeroPadded(DecimalText(n)) : n \in {0, 1, 10, 100, 9999, 12345, 54321,
                                                    99999, 100000, 111111, 123456,
                                                    222222, 333333, 500000, 654321,
                                                    999999}}

\* TOTPSecretChallengeRequest.code: an int with ge=100_000 and le=999_999
ChallengeCodeField(n) ==
    IF 100000 <= n /\ n <= 999999
    THEN [valid |-> TRUE, code |-> n]
    ELSE [valid |-> FALSE, code |-> 0]

\* the validation of the request body: 422 when the code is out of range
ChallengeRequest ==
    /\ call.pc = "called"
    /\ LET field == ChallengeCodeField(IntOfText(call.shown))
       IN  call' = IF field.valid
                   THEN [call EXCEPT !.pc = "validated", !.code = field.code]
                   ELSE [call EXCEPT !.pc = "answered", !.status = 422]
    /\ UNCHANGED <<storeVars, crypt, pw, otp, valid>>

\* if not verify_otp(decrypt_field(...), request_body.code): 401, else 200
ChallengeCode ==
    /\ call.pc = "validated"
    /\ LET otp_ok == verify_otp(call.secret, IntCode(call.code), "TOTP", 0)
       IN  call' = [call EXCEPT !.pc = "answered", !.otp_ok = otp_ok,
                                !.status = IF RejectsCode(otp_ok) THEN 401 ELSE 200]
    /\ UNCHANGED <<storeVars, crypt, pw, otp, valid>>

----------------------------------------------------------------------------
\* Password complexity.

\* characters of a password under validation: "A", "a", "1", "!" and the
\* Arabic-Indic digit three (U+0663)
ComplexityAlphabet == {65, 97, 49, 33, 1635}

RECURSIVE CharsUpTo(_)
CharsUpTo(n) ==
    IF n = 0 THEN {<<>>}
    ELSE LET shorter == CharsUpTo(n - 1)
         IN  shorter \cup {Append(s, ch) : s \in shorter, ch \in ComplexityAlphabet}

\* no filling, or a filling of nine or ten times the same character
Fillings == {[i \in 1..n |-> ch] : n \in {0, 9, 10}, ch \in ComplexityAlphabet}

ComplexityInputs == {filling \o chars : filling \in Fillings, chars \in CharsUpTo(MaxChars)}

\* search(pattern, password): some character of the password is in the class
Search(class, password) == \E i \in 1..Len(password) : password[i] \in class

\* [A-Z]
UpperClass == 65..90

\* [a-z]
LowerClass == 97..122

\* [0-9]
AsciiDigits == 48..57

\* \d on a str: every decimal digit of Unicode; of the characters used here the
\* ASCII digits and the Arabic-Indic ones
DigitClass == AsciiDigits \cup (1632..1641)

\* [^A-Za-z0-9], for the characters used here
SpecialClass == ComplexityAlphabet \ (UpperClass \cup LowerClass \cup AsciiDigits)

\* error_messages, in the order the checks append them
ErrorMessages(password) ==
    (IF Len(password) < 12 THEN <<"must be at least 12 characters long">> ELSE <<>>)
    \o (IF ~Search(UpperClass, password)
        THEN <<"must contain at least one uppercase letter">> ELSE <<>>)
    \o (IF ~Search(LowerClass, password)
        THEN <<"must contain at least one lowercase letter">> ELSE <<>>)
    \o (IF ~Search(DigitClass, password)
        THEN <<"must contain at least one digit">> ELSE <<>>)
    \o (IF ~Search(SpecialClass, password)
        THEN <<"must contain at least one special character">> ELSE <<>>)

IdleValid == [pc |-> "idle", password |-> <<>>, returned |-> <<>>, errors |-> 0,
              combined_message |-> <<>>]

\* validate_password_complexity(password): the password, or one ValueError whose
\* message joins the error messages
ValidatePasswordComplexity ==
    /\ valid.pc = "called"
    /\ LET error_messages == ErrorMessages(valid.password)
       IN  valid' = IF error_messages # <<>>
                    THEN [valid EXCEPT !.pc = "raised", !.errors = 1,
                                       !.combined_message = error_messages]
                    ELSE [valid EXCEPT !.pc = "returned", !.returned = valid.password]
    /\ UNCHANGED <<storeVars, crypt, pw, otp, call>>

----------------------------------------------------------------------------
\* The lookup hash of an address as a function.

IdleCall == [pc |-> "idle"]

EmailChars == {"a", "A", "+", "@"}

RECURSIVE TextsUpTo(_)
TextsUpTo(n) ==
    IF n = 0 THEN {<<>>}
    ELSE LET shorter == TextsUpTo(n - 1)
         IN  shorter \cup {Append(s, ch) : s \in shorter, ch \in EmailChars}

\* every text with an "@"
EmailInputs == {s \in TextsUpTo(MaxEmailLen) : Positions(s, "@") # {}}

\* str.upper() on one character of the alphabet used here
UpperChar(c) ==
    CASE c = "a" -> "A" [] c = "b" -> "B" [] c = "t" -> "T" [] c = "x" -> "X" [] OTHER -> c

\* the address of a mailbox as a user may write it: with a tag after the local
\* part or none, in lower case, in upper case or with a capital first letter
Spelling(local_part, tag, case) ==
    LET address == local_part \o tag \o <<"@", "x">>
    IN  CASE case = "upper" -> [i \in 1..Len(address) |-> UpperChar(address[i])]
          [] case = "capital" -> [i \in 1..Len(address) |->
                                    IF i = 1 THEN UpperChar(address[i]) ELSE address[i]]
          [] OTHER -> address

Mailboxes == {<<"a">>, <<"b", "a">>}

Tags == {<<>>, <<"+">>, <<"+", "t">>, <<"+", "a", "+", "b">>}

Cases == {"lower", "upper", "capital"}

Spellings(local_part) == {Spelling(local_part, tag, case) : tag \in Tags, case \in Cases}

\* hash_email(email, namespace) and hash_email(other, namespace)
HashEmail ==
    /\ call.pc = "called"
    /\ call' = [call EXCEPT !.pc = "hashed",
                            !.normalized = NormalizeEmail(call.email),
                            !.email_hash = hash_email(call.email, call.namespace),
                            !.other_hash = hash_email(call.other, call.namespace)]
    /\ UNCHANGED <<storeVars, crypt, pw, otp, valid>>

\* the normalization of hash_email on an address it has normalized
NormalizeAgain ==
    /\ call.pc = "hashed"
    /\ call' = [call EXCEPT !.pc = "renormalized", !.again = NormalizeEmail(call.normalized)]
    /\ UNCHANGED <<storeVars, crypt, pw, otp, valid>>

----------------------------------------------------------------------------
\* Specifications.

InitExt ==
    /\ issue = IdleIssue
    /\ handedOut = {}
    /\ conf = [c \in ConfSlots |-> IdleConf]
    /\ users = {}
    /\ lastConfirm = NoConfirm
    /\ crypt = IdleCrypt
    /\ pw = IdlePw
    /\ otp = IdleOtp
    /\ valid = IdleValid
    /\ call = IdleCall

NoLogin ==
    [cause |-> "none", user |-> NoUser, password_ok |-> FALSE, is_suspended |-> FALSE,
     is_2fa_enabled |-> FALSE, status |-> 0, detail |-> "none", body_fields |-> {},
     cookies |-> {}, new_sessions |-> {}, new_challenges |-> {}]

InitStore ==
    /\ regReq = [r \in Slots |-> IdleFrame]
    /\ pending = {}
    /\ emails = {}
    /\ nextToken = 0
    /\ sessions = {}
    /\ challenges = {}
    /\ totp = [u \in UserIds |-> IF u = "u2" THEN "confirmed" ELSE "none"]
    /\ mfaReq = [m \in MfaSlots |-> IdleMfa]
    /\ lastLogin = NoLogin
    /\ issued = {}
    /\ failedChallenges = {}
    /\ InitExt

Deployments == [login : {"login_user", "AuthController"}, mfa : {"routers", "endpoints"}]

InitRace == timed = FALSE /\ deploy \in Deployments /\ deploy.login = "login_user"
            /\ deploy.mfa = "routers" /\ InitStore

InitTiming == timed = TRUE /\ deploy \in Deployments /\ deploy.login = "login_user"
              /\ deploy.mfa = "routers" /\ InitStore

InitLogin == timed = FALSE /\ deploy \in Deployments /\ deploy.mfa = "routers" /\ InitStore

\* u1 has logged in before: the session a caller of the MFA routes holds
InitMfa ==
    /\ timed = FALSE
    /\ deploy \in Deployments /\ deploy.login = "login_user"
    /\ regReq = [r \in Slots |-> IdleFrame]
    /\ pending = {}
    /\ emails = {}
    /\ nextToken = 2
    /\ sessions = {SessionRow("u1", "app2", 1, 2)}
    /\ challenges = {}
    /\ totp = [u \in UserIds |-> IF u = "u2" THEN "confirmed" ELSE "none"]
    /\ mfaReq = [m \in MfaSlots |-> IdleMfa]
    /\ lastLogin = NoLogin
    /\ issued = {[access_token |-> 1, user_id |-> "u1", app_id |-> "app2", via |-> "login",
                  two_fa_at_issue |-> FALSE, otp_verified |-> FALSE, challenge |-> 0]}
    /\ failedChallenges = {}
    /\ InitExt

NextRegister ==
    \E r \in Slots :
        \/ Start(r)
        \/ ExecuteRegister(r)
        \/ FloorSleep(r)
        \/ Commit(r)
        \/ SendVerificationEmail(r)

NextMfa ==
    \/ Login(GoodCredentials)
    \/ SetupTotpSecret
    \/ ExpireChallenge
    \/ \E m \in MfaSlots : ResolveChallenge(m)
    \/ \E m \in MfaSlots : Confirm2fa(m)

\* concurrent registrations, time not tracked
SpecRace == InitRace /\ [][NextRegister]_vars

\* registrations with jitter and latencies
SpecTiming == InitTiming /\ [][NextRegister]_vars

\* the store may fail during a request: in its commit, in the lookup of the
\* application name, in both or in neither
InitDelivery ==
    /\ timed = FALSE /\ deploy \in Deployments /\ deploy.login = "login_user"
    /\ deploy.mfa = "routers"
    /\ \E F \in SUBSET StoreCallsAfterSleep :
          regReq = [r \in Slots |-> [IdleFrame EXCEPT !.faults = F]]
    /\ pending = {} /\ emails = {} /\ nextToken = 0 /\ sessions = {} /\ challenges = {}
    /\ totp = [u \in UserIds |-> IF u = "u2" THEN "confirmed" ELSE "none"]
    /\ mfaReq = [m \in MfaSlots |-> IdleMfa]
    /\ lastLogin = NoLogin /\ issued = {} /\ failedChallenges = {}
    /\ InitExt

\* concurrent registrations against a store that may fail
SpecDelivery == InitDelivery /\ [][NextRegister]_vars

\* login requests under either login handler
SpecLogin == InitLogin /\ [][Login(AnyCredentials)]_vars

\* login, TOTP setup and TOTP confirmation under either MFA router
SpecMfa == InitMfa /\ [][NextMfa]_vars

\* two confirm_2fa requests in flight at once
ConcurrentSlots == 1..NumConcurrent

\* u1 holds a session; the secrets are set up and confirmed by the requests
InitEnrol ==
    /\ timed = FALSE
    /\ deploy \in Deployments /\ deploy.login = "login_user"
    /\ regReq = [r \in Slots |-> IdleFrame]
    /\ pending = {}
    /\ emails = {}
    /\ nextToken = 2
    /\ sessions = {SessionRow("u1", "app2", 1, 2)}
    /\ challenges = {}
    /\ totp = [u \in UserIds |-> IF u = "u2" THEN "confirmed" ELSE "none"]
    /\ mfaReq = [m \in ConcurrentSlots |-> IdleMfa]
    /\ lastLogin = NoLogin
    /\ issued = {[access_token |-> 1, user_id |-> "u1", app_id |-> "app2", via |-> "login",
                  two_fa_at_issue |-> FALSE, otp_verified |-> FALSE, challenge |-> 0]}
    /\ failedChallenges = {}
    /\ InitExt

NextEnrol ==
    \/ SetupTotpSecret
    \/ \E m \in ConcurrentSlots : ResolveChallenge(m)
    \/ \E m \in ConcurrentSlots : Confirm2faCheck(m)
    \/ \E m \in ConcurrentSlots : Confirm2faSession(m)

\* TOTP setup and concurrent confirmations, the handler's awaits as steps
SpecEnrol == InitEnrol /\ [][NextEnrol]_vars

\* u1 has logged in with the password and holds a session; no user has a
\* TOTP secret yet
InitNoPassword ==
    /\ timed = FALSE
    /\ deploy \in Deployments /\ deploy.login = "login_user"
    /\ regReq = [r \in Slots |-> IdleFrame]
    /\ pending = {}
    /\ emails = {}
    /\ nextToken = 2
    /\ sessions = {SessionRow("u1", "app2", 1, 2)}
    /\ challenges = {}
    /\ totp = [u \in UserIds |-> "none"]
    /\ mfaReq = [m \in MfaSlots |-> IdleMfa]
    /\ lastLogin = NoLogin
    /\ issued = {[access_token |-> 1, user_id |-> "u1", app_id |-> "app2", via |-> "login",
                  two_fa_at_issue |-> FALSE, otp_verified |-> FALSE, challenge |-> 0]}
    /\ failedChallenges = {}
    /\ InitExt

NextNoPassword ==
    \/ Login(WrongCredentials)
    \/ SetupTotpSecret
    \/ ExpireChallenge
    \/ \E m \in MfaSlots : ResolveChallenge(m)
    \/ \E m \in MfaSlots : Confirm2fa(m)

\* from then on no caller presents a right password: logins with a wrong
\* one, TOTP setups and TOTP confirmations only
SpecNoPassword == InitNoPassword /\ [][NextNoPassword]_vars

\* nobody holds a session yet: the whole flow from the first login
InitFlow == timed = FALSE /\ deploy \in Deployments /\ deploy.login = "login_user" /\ InitStore

\* login, TOTP setup and TOTP confirmation, from an empty session table
SpecFlow == InitFlow /\ [][NextMfa]_vars

NextIssue == IssueStart \/ IssueExecute \/ IssueCommit \/ IssueReturn

\* calls of the issuer whose store call or commit may fail or be cancelled
SpecIssue == InitFlow /\ [][NextIssue]_vars

NextConfirm ==
    \/ \E r \in 1..NumConfReg : Start(r) \/ ExecuteRegister(r) \/ FloorSleep(r) \/ Commit(r)
                                    \/ SendVerificationEmail(r)
    \/ \E c \in ConfSlots : ConfirmExecute(c)
    \/ \E c \in ConfSlots : ConfirmCommit(c)

\* registrations and confirmations, interleaved
SpecConfirm == InitRace /\ [][NextConfirm]_vars

\* one registration, the confirmations of its token one after the other, logins
NextStore ==
    \/ Start(1) \/ ExecuteRegister(1) \/ FloorSleep(1) \/ Commit(1) \/ SendVerificationEmail(1)
    \/ ConfirmExecute(1) \/ ConfirmCommit(1)
    \/ Login(GoodCredentials)

\* every handler that passes a token to the store: registration, confirmation
\* and login (session and challenge creation)
SpecStore == InitRace /\ [][NextStore]_vars

\* the store is not touched by the functions below
InitFn ==
    /\ timed = FALSE
    /\ deploy = [login |-> "login_user", mfa |-> "routers"]
    /\ regReq = [r \in Slots |-> IdleFrame]
    /\ pending = {}
    /\ emails = {}
    /\ nextToken = 0
    /\ sessions = {}
    /\ challenges = {}
    /\ totp = [u \in UserIds |-> "none"]
    /\ mfaReq = [m \in MfaSlots |-> IdleMfa]
    /\ lastLogin = NoLogin
    /\ issued = {}
    /\ failedChallenges = {}
    /\ issue = IdleIssue
    /\ handedOut = {}
    /\ conf = [c \in ConfSlots |-> IdleConf]
    /\ users = {}
    /\ lastConfirm = NoConfirm

InitCrypt ==
    /\ InitFn
    /\ pw = IdlePw
    /\ otp = IdleOtp
    /\ valid = IdleValid
    /\ call = IdleCall
    /\ crypt \in {[IdleCrypt EXCEPT !.pc = "called", !.value = s] : s \in Strings}

\* encrypt_field on a string, then decrypt_field on what it returned
SpecCrypt == InitCrypt /\ [][EncryptField \/ DecryptField]_vars


InitPassword ==
    /\ InitFn
    /\ crypt = IdleCrypt
    /\ otp = IdleOtp
    /\ valid = IdleValid
    /\ call = IdleCall
    /\ pw \in {[IdlePw EXCEPT !.pc = "called", !.password = p] : p \in Passwords}

\* hash_password on a password, then verify_password calls on what it returned
SpecPassword == InitPassword /\ [][HashPassword \/ VerifyPassword]_vars

InitOtp ==
    /\ InitFn
    /\ crypt = IdleCrypt
    /\ pw = IdlePw
    /\ valid = IdleValid
    /\ call = IdleCall
    /\ otp \in {[IdleOtp EXCEPT !.pc = "called", !.secret = secret, !.otp_code = code,
                                 !.method = method, !.counter = counter] :
                   secret \in OtpSecrets, code \in OtpCodes, method \in OtpMethods,
                   counter \in OtpCounters}

\* either verifier on its inputs: a password hashed and then verified against
\* a stored hash, or one verify_otp call
SpecVerifiers ==
    (InitPassword \/ InitOtp) /\ [][HashPassword \/ VerifyPassword \/ VerifyOtp]_vars

InitComplexity ==
    /\ InitFn
    /\ crypt = IdleCrypt
    /\ pw = IdlePw
    /\ otp = IdleOtp
    /\ call = IdleCall
    /\ valid \in {[IdleValid EXCEPT !.pc = "called", !.password = p] : p \in ComplexityInputs}

\* validate_password_complexity on a password
SpecComplexity == InitComplexity /\ [][ValidatePasswordComplexity]_vars

\* an address and itself, or two spellings of one mailbox
InitEmail ==
    /\ InitFn
    /\ crypt = IdleCrypt
    /\ pw = IdlePw
    /\ otp = IdleOtp
    /\ valid = IdleValid
    /\ \E namespace \in Apps :
         call \in {[pc |-> "called", mailbox |-> <<>>, other_mailbox |-> <<>>,
                    email |-> e, other |-> e,
                    namespace |-> namespace, normalized |-> <<>>, again |-> <<>>,
                    email_hash |-> <<>>, other_hash |-> <<>>] : e \in EmailInputs}
              \cup UNION {{[pc |-> "called", mailbox |-> m, other_mailbox |-> n,
                             email |-> e, other |-> o,
                             namespace |-> namespace, normalized |-> <<>>, again |-> <<>>,
                             email_hash |-> <<>>, other_hash |-> <<>>] :
                            e \in Spellings(m), o \in Spellings(n)} :
                           m \in Mailboxes, n \in Mailboxes}

\* hash_email on an address, and its normalization once more
SpecEmail == InitEmail /\ [][HashEmail \/ NormalizeAgain]_vars

\* a registration with one spelling of a mailbox under one application, and a
\* login with a spelling of the same or of another mailbox under the same or
\* another application
InitLookup ==
    /\ InitFn
    /\ crypt = IdleCrypt
    /\ pw = IdlePw
    /\ otp = IdleOtp
    /\ valid = IdleValid
    /\ call \in UNION {{[pc |-> "called", mailbox |-> m, other_mailbox |-> n,
                          email |-> e, other |-> o, app_id |-> a, other_app |-> b,
                          register_key |-> <<>>, login_key |-> <<>>] :
                         e \in Spellings(m), o \in Spellings(n), a \in Apps, b \in Apps} :
                        m \in Mailboxes, n \in Mailboxes}

\* the key of a registration, then the key of a login
SpecLookup == InitLookup /\ [][RegisterLookupKey \/ LoginLookupKey]_vars

\* an idle event loop with no request accepted yet
InitLoop ==
    /\ InitFn
    /\ crypt = IdleCrypt
    /\ pw = IdlePw
    /\ otp = IdleOtp
    /\ valid = IdleValid
    /\ call = [pc |-> "loop", running |-> 0, reqs |-> [r \in LoopSlots |-> IdleCoroutine]]

NextLoop ==
    \E r \in LoopSlots :
        \/ LoopAccept(r)
        \/ LookupAnswers(r)
        \/ LoopResume(r)
        \/ VerifyStep(r)
        \/ LoopAwait(r)
        \/ LoopReturn(r)

\* login and confirm_2fa requests on one event loop
SpecLoop == InitLoop /\ [][NextLoop]_vars

\* a confirm_2fa request for the secret of u1, u2 or u3 with six digits
InitCode ==
    /\ InitFn
    /\ crypt = IdleCrypt
    /\ pw = IdlePw
    /\ otp = IdleOtp
    /\ valid = IdleValid
    /\ call \in {[pc |-> "called", secret |-> SecretOf(u), shown |-> shown, code |-> 0,
                   status |-> 0, otp_ok |-> FALSE] :
                     u \in {"u1", "u2", "u3"}, shown \in ShownCodes}

\* the body of a confirmation validated, and its code verified
SpecCode == InitCode /\ [][ChallengeRequest \/ ChallengeCode]_vars

----------------------------------------------------------------------------
\* Properties of registration.

Done(r) == regReq[r].pc = "done"

KeyOfRequest(r) ==
    [app_id |-> regReq[r].app_id, email_hash |-> hash_email(regReq[r].email, regReq[r].app_id)]

KeyOfEmail(m) == [app_id |-> m.title, email_hash |-> hash_email(m.recipients, m.title)]

C2_DuplicateHasNoEffect ==
    /\ [][\A r \in Slots :
            (regReq'[r].outcome = "IntegrityError" /\ regReq'[r] # regReq[r])
                => /\ pending' = pending
                   /\ emails' = emails
                   /\ regReq'[r].tx = <<>>]_vars
    /\ [](\A r \in Slots :
            regReq[r].outcome = "IntegrityError"
                => /\ \A row \in pending : row.token_hash # hash_token(regReq[r].token)
                   /\ \A m \in emails : m.token # regReq[r].token)

\* C2 witness: a request has returned after a uniqueness violation against a
\* committed pending row.
C2_Witness ==
    \E r \in Slots :
        /\ Done(r) /\ regReq[r].outcome = "IntegrityError"
        /\ KeyOfRequest(r) \in PendingKeys

C4_LatencyFloor ==
    \A r \in Slots : Done(r) => regReq[r].t >= MIN_RESPONSE_TIME_SECONDS

\* C4 witness: a request whose store call took less than the floor, after the
\* largest jitter, has returned.
C4_Witness ==
    \E r \in Slots :
        /\ Done(r)
        /\ regReq[r].work < MIN_RESPONSE_TIME_SECONDS
        /\ regReq[r].start = JITTER_MAX

\* C5: whenever the work before the floor sleep took less than the floor, the
\* request returns within floor plus jitter of handler entry, in both branches.
C5_LatencyWindow ==
    \A r \in Slots :
        (Done(r) /\ regReq[r].work < MIN_RESPONSE_TIME_SECONDS)
            => /\ regReq[r].t >= MIN_RESPONSE_TIME_SECONDS
               /\ regReq[r].t <= MIN_RESPONSE_TIME_SECONDS + JITTER_MAX

----------------------------------------------------------------------------
\* Properties of login and MFA.

LastAnswer == Detail(lastLogin.status, lastLogin.detail)

\* C6: the failure answered to an unknown email is the one the handler answers
\* to a wrong password, and the other way round: same status, same detail.
C6_SameFailure ==
    /\ lastLogin.cause = "unknown email" => LastAnswer = InvalidPassword
    /\ lastLogin.cause = "wrong password" => LastAnswer = UserNotFound

\* C7: a login with the correct password for a suspended user is answered
\* 403 "User account is suspended" and creates neither a session nor an MFA
\* challenge session.
C7_SuspendedRefused ==
    (lastLogin.password_ok /\ lastLogin.is_suspended)
        => /\ LastAnswer = ErrorMappings("User is suspended")
           /\ lastLogin.new_sessions = {}
           /\ lastLogin.new_challenges = {}

\* C8: a login with the correct password for a user with 2FA enabled creates
\* one challenge session, no session row and no cookie; every session issued
\* to a user with 2FA enabled was issued by confirm_2fa after verify_otp
\* accepted the code for the challenge presented.
C8_NoSessionBeforeTotp ==
    /\ (lastLogin.cause = "ok" /\ lastLogin.is_2fa_enabled)
         => /\ lastLogin.new_sessions = {}
            /\ lastLogin.cookies = {}
            /\ Cardinality(lastLogin.new_challenges) = 1
    /\ \A row \in sessions :
         \E h \in issued : /\ row.access_token_hash = hash_token(h.access_token)
                           /\ row.user_id = h.user_id
    /\ \A h \in issued :
         h.two_fa_at_issue
            => /\ h.via = "confirm_2fa"
               /\ h.otp_verified
               /\ h.challenge # 0

\* C8 witness: the user with 2FA enabled logged in, and holds a session that
\* confirm_2fa issued.
C8_Witness ==
    /\ lastLogin.cause = "ok" /\ lastLogin.user = "u2"
    /\ \E h \in issued : h.user_id = "u2" /\ h.via = "confirm_2fa"

\* C9: the response to a login with the correct password for a user with 2FA
\* enabled carries the challenge token, and a confirm_2fa is never refused for
\* want of an access token: the challenge token and the code are all it needs.
C9_ChallengeFlow ==
    /\ (lastLogin.cause = "ok" /\ lastLogin.is_2fa_enabled)
         => "challenge_token" \in lastLogin.body_fields
    /\ \A m \in MfaSlots : mfaReq[m].detail # "Invalid or expired access token"

C11_SingleUse ==
    \A h1, h2 \in issued :
        (h1.via = "confirm_2fa" /\ h2.via = "confirm_2fa" /\ h1.challenge = h2.challenge)
            => h1 = h2

\* a plaintext token whose hash some committed session or challenge row holds
Persisted(t) ==
    \/ \E row \in sessions : hash_token(t) \in {row.access_token_hash, row.refresh_token_hash}
    \/ \E c \in challenges : hash_token(t) = c.challenge_token_hash

\* C12: create_login_session and create_mfa_challenge_session hand a plaintext
\* token to the caller only when the store call and the commit have completed:
\* every token handed out has its hash in a committed row, and a call that
\* failed or was cancelled has returned nothing.
C12_PersistBeforeReturn ==
    /\ \A t \in handedOut : Persisted(t)
    /\ issue.pc = "failed" => issue.returned = <<>>
    /\ issue.returned # <<>> => \A i \in 1..Len(issue.returned) : Persisted(issue.returned[i])

\* C12 witness: the issuer has handed out tokens, and its next call was
\* cancelled after the store call, with nothing returned.
C12_Witness ==
    /\ handedOut # {}
    /\ issue.pc = "failed" /\ issue.tokens # <<>>
    /\ \A i \in 1..Len(issue.tokens) : issue.tokens[i] \notin handedOut

----------------------------------------------------------------------------
\* Properties of the store's arguments and of confirmation.

\* a value that hash_token produced
IsTokenHash(v) == v[1] = "hmac"

\* C13: every token the store was given is a hash: the token columns of the
\* pending rows, of the rows in open transactions, of the session rows and of
\* the challenge rows, and the token argument of a confirmation, are values of
\* hash_token.
C13_OnlyHashesStored ==
    /\ \A row \in pending : IsTokenHash(row.token_hash)
    /\ \A r \in Slots : \A i \in 1..Len(regReq[r].tx) : IsTokenHash(regReq[r].tx[i].token_hash)
    /\ \A row \in sessions :
         IsTokenHash(row.access_token_hash) /\ IsTokenHash(row.refresh_token_hash)
    /\ \A c \in challenges : IsTokenHash(c.challenge_token_hash)
    /\ \A c \in ConfSlots : conf[c].pc = "executed" => IsTokenHash(conf[c].token_hash)

\* C13 witness: a registration was confirmed into a user, and a session row and
\* a challenge row have been created.
C13_Witness ==
    /\ emails # {} /\ users # {}
    /\ sessions # {} /\ challenges # {}

LastConfirmAnswer == Detail(lastConfirm.response.status, lastConfirm.response.detail)

\* C14: the five conditions have five different (status, detail) pairs, and a
\* confirmation for which the store raised one of them is answered with the
\* pair of that condition.
C14_ConditionMapped ==
    /\ \A i, j \in 1..Len(ERROR_ORDER) :
         i # j => ConfirmErrorMappings(ERROR_ORDER[i]) # ConfirmErrorMappings(ERROR_ORDER[j])
    /\ lastConfirm.cause \in StoreConditions
         => LastConfirmAnswer = ConfirmErrorMappings(lastConfirm.cause)

\* C15: a confirmation that met a failure other than the five conditions is
\* answered with the unmapped failure, whatever text the failure carries.
C15_UnexpectedPropagates ==
    lastConfirm.cause \in UnexpectedFailures => LastConfirmAnswer = Unexpected

----------------------------------------------------------------------------
\* Properties of the cryptographic functions.

\* characters of a base64 text, "=" only as the last one or two of a text whose
\* length is a multiple of four
IsBase64(t) ==
    /\ Len(t) % 4 = 0
    /\ \A i \in 1..Len(t) : t[i] \in 0..64 /\ (t[i] = 64 => i >= Len(t) - 1)
    /\ Len(t) > 0 => (t[Len(t) - 1] = 64 => t[Len(t)] = 64)

\* C17: for every string s, what encrypt_field(s) returns is a non-empty base64
\* text, decrypt_field accepts it, and decrypt_field of it is s again.
C17_RoundTrip ==
    /\ crypt.pc \in {"encrypted", "decrypted"} =>
          crypt.encrypted # <<>> /\ IsBase64(crypt.encrypted)
    /\ crypt.pc # "raised"
    /\ crypt.pc = "decrypted" => crypt.decrypted = crypt.value

\* C17 witness: a string of a two-byte and a four-byte character has been
\* encrypted to 48 base64 characters (12 + 6 + 16 bytes) and decrypted
C17_Witness ==
    /\ crypt.pc = "decrypted"
    /\ crypt.value = <<233, 128512>>
    /\ Len(crypt.encrypted) = 48

\* C18 as stated: verify_password accepts the password that was hashed and
\* rejects every other password, the empty one included.
C18_OnlyThePassword ==
    (pw.pc = "verified" /\ pw.stored = pw.hashed) =>
        (pw.result <=> pw.candidate = pw.password)

\* C18, amended: verify_password accepts the password that was hashed, and
\* rejects every password, the empty one included, whose NFKC form is not that
\* of the hashed password.
C18_OnlyTheNormalizedPassword ==
    /\ pw.pc = "raised" => pw.stored # pw.hashed
    /\ (pw.pc = "verified" /\ pw.stored = pw.hashed) =>
          /\ pw.candidate = pw.password => pw.result
          /\ NFKC(pw.candidate) # NFKC(pw.password) => ~pw.result

\* C18 witness: the hash of a password with a fullwidth letter was verified
\* against the password itself, with success, and against the empty password,
\* without
C18_Witness ==
    /\ pw.pc = "verified" /\ pw.stored = pw.hashed
    /\ pw.password = GoodPassword \o <<65313>>
    /\ pw.candidate = <<>>
    /\ ~pw.result

\* C19: neither verifier lets an exception out.  verify_password returns False
\* for a stored hash that was cut, changed or is no hash; verify_otp returns
\* False for a secret that is not base32, for a code that is None or not of six
\* characters, and for a method other than TOTP and HOTP.
C19_VerifiersNeverRaise ==
    /\ pw.pc # "raised" /\ pw.raised = NoException
    /\ otp.pc # "raised" /\ otp.raised = NoException
    /\ (pw.pc = "verified" /\ pw.stored # pw.hashed) => ~pw.result
    /\ (/\ otp.pc = "verified"
        /\ \/ otp.secret[1] # "base32"
           \/ otp.otp_code.type = "NoneType"
           \/ Len(otp.otp_code.text) # 6
           \/ otp.method \notin {"TOTP", "HOTP"}) => ~otp.result

\* C19 witness: verify_otp was called with a secret that is not base32 and
\* returned False
C19_Witness ==
    /\ otp.pc = "verified"
    /\ otp.secret[1] # "base32"
    /\ otp.method = "TOTP"
    /\ ~otp.result

\* the rules as the function documents them: at least 12 characters, an
\* uppercase letter (A-Z), a lowercase letter (a-z), a digit (0-9), a character
\* that is not alphanumeric
ViolatedRules(password) ==
    (IF Len(password) < 12 THEN {"must be at least 12 characters long"} ELSE {})
    \cup (IF \A i \in 1..Len(password) : password[i] \notin 65..90
          THEN {"must contain at least one uppercase letter"} ELSE {})
    \cup (IF \A i \in 1..Len(password) : password[i] \notin 97..122
          THEN {"must contain at least one lowercase letter"} ELSE {})
    \cup (IF \A i \in 1..Len(password) : password[i] \notin 48..57
          THEN {"must contain at least one digit"} ELSE {})
    \cup (IF \A i \in 1..Len(password) :
                password[i] \in (65..90) \cup (97..122) \cup (48..57)
          THEN {"must contain at least one special character"} ELSE {})

\* C20: validate_password_complexity returns the password unchanged exactly
\* when it has at least 12 characters, an uppercase letter, a lowercase letter,
\* a digit and a character that is not alphanumeric; otherwise it raises one
\* error whose message lists every violated rule.
C20_ComplexityRules ==
    /\ valid.pc = "returned" =>
          ViolatedRules(valid.password) = {} /\ valid.returned = valid.password
    /\ valid.pc = "raised" =>
          /\ valid.errors = 1
          /\ {valid.combined_message[i] : i \in 1..Len(valid.combined_message)}
                = ViolatedRules(valid.password)
          /\ ViolatedRules(valid.password) # {}

----------------------------------------------------------------------------
\* Properties of the lookup hash.

\* C21: the normalization of hash_email, applied to an address it has
\* normalized, changes nothing; and two spellings of one mailbox, which differ
\* in a tag after the local part or in letter case, have the same hash under
\* the same namespace.
C21_NormalizationIdempotent ==
    /\ call.pc = "renormalized" => call.again = call.normalized
    /\ (call.pc \in {"hashed", "renormalized"} /\ call.mailbox # <<>>
        /\ call.mailbox = call.other_mailbox) => call.email_hash = call.other_hash

\* C21 witness: "BA+T@X" and "ba@x" were hashed, and the normalized form
\* "ba@x" was normalized again
C21_Witness ==
    /\ call.pc = "renormalized"
    /\ call.email = <<"B", "A", "+", "T", "@", "X">>
    /\ call.other = <<"b", "a", "@", "x">>
    /\ call.normalized = <<"b", "a", "@", "x">>

----------------------------------------------------------------------------
\* Properties of the order of one registration.

\* C22: within one registration the steps run in the order hash, store write,
\* commit, response-time-floor sleep, email enqueue: a request whose sleep is
\* over has already committed its pending row.
C22_CommitBeforeSleep ==
    \A r \in Slots :
        regReq[r].pc = "slept" =>
            \E row \in pending : row.token_hash = hash_token(regReq[r].token)

\* C23: an email is enqueued only by a request whose store call returned a
\* live expiry and whose commit succeeded; the token of its URL is the
\* plaintext whose hash that request persisted, so every enqueued email has
\* a committed pending row with the hash of its token, for its address.
C23_EmailHasCommittedRow ==
    \A e \in emails :
        /\ \E row \in pending :
              /\ row.token_hash = hash_token(e.token)
              /\ row.email_hash = hash_email(e.recipients, row.app_id)
              /\ decrypt_field(row.email_encrypted) = e.recipients
        /\ \E r \in Slots :
              /\ regReq[r].token = e.token
              /\ regReq[r].email = e.recipients
              /\ regReq[r].outcome = "expires_at"
              /\ regReq[r].expires_at # None
              /\ regReq[r].pc = "done"
              /\ regReq[r].response = NoContent

\* C23 witness: one request enqueued its email, and another, whose commit
\* raised, ended without one
C23_Witness ==
    /\ \E e \in emails : e.token = regReq[1].token
    /\ regReq[2].pc = "done"
    /\ regReq[2].outcome = "expires_at"
    /\ regReq[2].response = ServerError
    /\ "commit" \in regReq[2].faults
    /\ \A e \in emails : e.token # regReq[2].token

\* C30: every registration whose pending row is committed has its email
\* enqueued: no request ends with its row committed and no email for it,
\* whatever fails after the commit.
C30_CommittedRowGetsEmail ==
    \A r \in Slots :
        (/\ regReq[r].pc = "done"
         /\ \E row \in pending : row.token_hash = hash_token(regReq[r].token))
            => \E e \in emails : e.token = regReq[r].token

----------------------------------------------------------------------------
\* Properties of concurrent confirmations.

\* C24: confirm_totp_secret is invoked only by a request whose verify_otp
\* returned true, and over any interleaving of confirm_2fa requests it is
\* invoked once per secret: no two requests invoke it for the same secret.
C24_ConfirmedOnce ==
    /\ \A m \in ConcurrentSlots : mfaReq[m].confirm_called => mfaReq[m].otp_ok
    /\ \A m, n \in ConcurrentSlots :
          (/\ mfaReq[m].confirm_called /\ mfaReq[n].confirm_called
           /\ mfaReq[m].data.totp_secret_id = mfaReq[n].data.totp_secret_id) => m = n

----------------------------------------------------------------------------
\* Properties of the code of a confirmation.

\* C28: every six-digit code, those with leading zeros included, is accepted
\* by the request schema of confirm_2fa, and verifies when it is the current
\* code of the secret.
C28_EverySixDigitCode ==
    call.pc = "answered" =>
        /\ call.status # 422
        /\ call.shown = ZeroPadded(DecimalText(TOTPNow(call.secret))) => call.otp_ok

----------------------------------------------------------------------------
\* Properties of the lookup key at registration and at login.

\* C29: register and login compute the same lookup key for two spellings of
\* one mailbox (letter case, a tag after the local part) under the same
\* app_id, and different keys for the same address under two app_ids.
C29_SameLookupKey ==
    call.pc = "looked up" =>
        /\ (call.mailbox = call.other_mailbox /\ call.app_id = call.other_app)
              => call.register_key = call.login_key
        /\ (call.email = call.other /\ call.app_id # call.other_app)
              => call.register_key # call.login_key

\* C29 witness: "BA+T@X" was registered under app1 and "ba@x" looked up at
\* login under app1
C29_Witness ==
    /\ call.pc = "looked up"
    /\ call.email = <<"B", "A", "+", "T", "@", "X">>
    /\ call.other = <<"b", "a", "@", "x">>
    /\ call.app_id = "app1" /\ call.other_app = "app1"
    /\ call.register_key = call.login_key

----------------------------------------------------------------------------
\* Properties of the event loop.

\* C25: verify_password and verify_otp do not run inline on the event loop:
\* while a request executes one of them the loop's thread is not held by that
\* request, and every other request that is ready to be resumed can be.
C25_VerificationOffLoop ==
    \A r \in LoopSlots :
        (call.reqs[r].pc = "verifying" /\ call.reqs[r].remaining > 0) =>
            /\ call.running # r
            /\ \A q \in LoopSlots \ {r} :
                  call.reqs[q].pc = "ready" => ENABLED LoopResume(q)

----------------------------------------------------------------------------
\* Properties of the sessions that confirm_2fa issues.

\* the users whose password a login has verified
PasswordVerified == {h.user_id : h \in {i \in issued : i.via = "login"}}

\* C26: every session of a user is preceded by a successful verification of
\* that user's password: TOTP setups and confirmations by callers who never
\* presented the password of u yield no session for u.
C26_PasswordBeforeSession ==
    \A row \in sessions : row.user_id \in PasswordVerified

\* C27: the session that confirm_2fa issues is for exactly the user_id and
\* app_id of the challenge session whose token the request presented,
\* whatever the request body holds and whichever user the access token of the
\* Authorization header belongs to.
C27_SessionOfTheChallenge ==
    \A h \in issued :
        h.via = "confirm_2fa" =>
            \E c \in challenges, row \in sessions :
                /\ c.challenge_token_hash = hash_token(h.challenge)
                /\ row.access_token_hash = hash_token(h.access_token)
                /\ row.user_id = c.user_id
                /\ row.app_id = c.app_id

\* C27 witness: under the router that requires an access token, confirm_2fa
\* issued a session for u2 when every access token in existence was of u1
C27_Witness ==
    /\ deploy.mfa = "routers"
    /\ \E h \in issued :
          /\ h.via = "confirm_2fa" /\ h.user_id = "u2"
          /\ \A g \in issued \ {h} : g.user_id = "u1"

====
